---- MODULE Spec2Model ----
(***************************************************************************)
(* Model of the BankSystem ledger core: models/transaction.py and          *)
(* models/account.py.                                                      *)
(*                                                                         *)
(* Python values are tagged records [type, num, str]: `type` is the Python *)
(* class name, `num` the numeric payload, `str` the string payload.        *)
(* Monetary quantities are counted in thousandths of a currency unit, so   *)
(* that amounts finer than one cent exist and round(x, 2) is not the       *)
(* identity; arithmetic on them is exact.  Account balances are numeric in  *)
(* every modelled state and are kept as plain integers of the same unit.   *)
(* datetime.now() reads a logical clock that advances with every call.     *)
(***************************************************************************)
EXTENDS Integers, Sequences, FiniteSets, TLC

VARIABLES accounts, initial, clock, last, file

vars == <<accounts, initial, clock, last, file>>

\* ------------------------------------------------------------ bounds
\* Number of operation calls in one run.
MaxCalls == 2

\* Number of commands run from the command line.
MaxCommands == 3

\* ------------------------------------------------------------ values
PyInt(n) == [type |-> "int", num |-> n, str |-> ""]
PyFloat(n) == [type |-> "float", num |-> n, str |-> ""]
PyStr(s) == [type |-> "str", num |-> 0, str |-> s]
PyDatetime(t) == [type |-> "datetime", num |-> t, str |-> ""]
PyNone == [type |-> "NoneType", num |-> 0, str |-> ""]

\* isinstance(x, (int, float))
IsNumber(x) == x.type \in {"int", "float"}

\* isinstance(x, int)
IsInt(x) == x.type = "int"

\* isinstance(x, str)
IsStr(x) == x.type = "str"

\* isinstance(x, datetime)
IsDatetime(x) == x.type = "datetime"

\* str.strip() of the strings the model uses: blank strings strip to "".
Strip(s) == IF s \in {"", " ", "   ", "\n", "\t"} THEN "" ELSE s

\* Outcome of a call: a returned value, or an exception that escapes.
Returned(m) == [raised |-> FALSE, exc |-> "", msg |-> m]
Raised(e, m) == [raised |-> TRUE, exc |-> e, msg |-> m]

\* ------------------------------------------------------------ Transaction
\* Transaction.__init__: the type checks in source order, then the fields
\* stored verbatim.  `value` is meaningful only when nothing was raised.
NoTransaction == [transaction_id |-> PyNone, amount |-> PyNone,
                  transaction_type |-> PyNone, time_stamp |-> PyNone,
                  currency |-> PyNone]

\* Mutant of Transaction: the currency is stored without its type check.
Transaction_currency_unchecked(transaction_id, amount, transaction_type, time_stamp, currency) ==
    LET fail(e, m) == [outcome |-> Raised(e, m), value |-> NoTransaction]
    IN  IF ~IsInt(transaction_id)
          THEN fail("TypeError", "Transaction id must be an integer")
        ELSE IF ~IsNumber(amount)
          THEN fail("TypeError", "Amount must be a num")
        ELSE IF ~IsStr(transaction_type)
          THEN fail("TypeError", "Transaction type must be an string")
        ELSE IF Strip(transaction_type.str) = ""
          THEN fail("ValueError", "Transaction type must not be empty")
        ELSE IF ~IsDatetime(time_stamp)
          THEN fail("TypeError", "Time_stamp must be an datetime")
        ELSE [outcome |-> Returned(""),
              value |-> [transaction_id |-> transaction_id,
                         amount |-> amount,
                         transaction_type |-> transaction_type,
                         time_stamp |-> time_stamp,
                         currency |-> currency]]

\* Mutant of Transaction: the kind is tested for emptiness without strip().
Transaction_kind_unstripped(transaction_id, amount, transaction_type, time_stamp, currency) ==
    LET fail(e, m) == [outcome |-> Raised(e, m), value |-> NoTransaction]
    IN  IF ~IsInt(transaction_id)
          THEN fail("TypeError", "Transaction id must be an integer")
        ELSE IF ~IsNumber(amount)
          THEN fail("TypeError", "Amount must be a num")
        ELSE IF ~IsStr(transaction_type)
          THEN fail("TypeError", "Transaction type must be an string")
        ELSE IF transaction_type.str = ""
          THEN fail("ValueError", "Transaction type must not be empty")
        ELSE IF ~IsDatetime(time_stamp)
          THEN fail("TypeError", "Time_stamp must be an datetime")
        ELSE IF ~IsStr(currency)
          THEN fail("TypeError", "Currency must be an string")
        ELSE [outcome |-> Returned(""),
              value |-> [transaction_id |-> transaction_id,
                         amount |-> amount,
                         transaction_type |-> transaction_type,
                         time_stamp |-> time_stamp,
                         currency |-> currency]]

Transaction(transaction_id, amount, transaction_type, time_stamp, currency) ==
    LET fail(e, m) == [outcome |-> Raised(e, m), value |-> NoTransaction]
    IN  IF ~IsInt(transaction_id)
          THEN fail("TypeError", "Transaction id must be an integer")
        ELSE IF ~IsNumber(amount)
          THEN fail("TypeError", "Amount must be a num")
        ELSE IF ~IsStr(transaction_type)
          THEN fail("TypeError", "Transaction type must be an string")
        ELSE IF Strip(transaction_type.str) = ""
          THEN fail("ValueError", "Transaction type must not be empty")
        ELSE IF ~IsDatetime(time_stamp)
          THEN fail("TypeError", "Time_stamp must be an datetime")
        ELSE IF ~IsStr(currency)
          THEN fail("TypeError", "Currency must be an string")
        ELSE [outcome |-> Returned(""),
              value |-> [transaction_id |-> transaction_id,
                         amount |-> amount,
                         transaction_type |-> transaction_type,
                         time_stamp |-> time_stamp,
                         currency |-> currency]]

\* ------------------------------------------------------------ Bankaccount
\* Bankaccount.__init__: stores its arguments, validates nothing.
Bankaccount(account_id, balance, currency) ==
    [account_id |-> account_id, balance |-> balance, currency |-> currency,
     transactions |-> <<>>]

\* Bankaccount.get_exchange_rate: the rate as a fraction num/den, or not
\* found (None).  The same-currency test comes before the table lookup.
NoRate == [found |-> FALSE, num |-> 0, den |-> 1]
Rate(n, d) == [found |-> TRUE, num |-> n, den |-> d]

exchange_rates(from_currency, to_currency) ==
    LET key == <<from_currency.type, from_currency.str,
                 to_currency.type, to_currency.str>>
    IN  CASE key = <<"str", "USD", "str", "UAN">> -> Rate(395, 10)
          [] key = <<"str", "UAN", "str", "USD">> -> Rate(10, 395)
          [] key = <<"str", "USD", "str", "EUR">> -> Rate(92, 100)
          [] key = <<"str", "EUR", "str", "USD">> -> Rate(100, 92)
          [] key = <<"str", "UAN", "str", "EUR">> -> Rate(92, 3950)
          [] key = <<"str", "EUR", "str", "UAN">> -> Rate(3950, 92)
          [] OTHER -> NoRate

\* Mutant of get_exchange_rate: the same-currency rule is applied only to the
\* currencies of the table.
get_exchange_rate_table_only(from_currency, to_currency) ==
    IF /\ from_currency = to_currency
       /\ from_currency \in {PyStr("USD"), PyStr("EUR"), PyStr("UAN")}
      THEN Rate(1, 1)
      ELSE exchange_rates(from_currency, to_currency)

get_exchange_rate(from_currency, to_currency) ==
    IF from_currency = to_currency
      THEN Rate(1, 1)
      ELSE exchange_rates(from_currency, to_currency)

\* Mutant of RoundOutcomes: the product is cut to whole hundredths instead of
\* rounded to the nearest.
RoundOutcomes_truncates(amount, rate) ==
    {10 * ((amount * rate.num) \div (rate.den * 10))}

\* round(amount * exchange_rate, 2) for amount > 0, in thousandths.  The
\* product is n/d hundredths; the result is the nearest whole hundredth.
\* On an exact decimal tie the float result depends on the binary expansion
\* of the product, so both neighbours are possible outcomes.
RoundOutcomes(amount, rate) ==
    LET n == amount * rate.num
        d == rate.den * 10
        q == n \div d
        r == n % d
    IN  IF 2 * r < d THEN {10 * q}
        ELSE IF 2 * r > d THEN {10 * (q + 1)}
        ELSE {10 * q, 10 * (q + 1)}

\* repr of a non-negative float counted in thousandths: "1.0", "0.92", "0.004".
FloatRepr(n) ==
    LET whole == n \div 1000
        frac == n % 1000
        d1 == frac \div 100
        d2 == (frac \div 10) % 10
        d3 == frac % 10
        digits == IF d3 # 0 THEN ToString(d1) \o ToString(d2) \o ToString(d3)
                  ELSE IF d2 # 0 THEN ToString(d1) \o ToString(d2)
                  ELSE ToString(d1)
    IN  ToString(whole) \o "." \o digits

\* str() of a number as an f-string prints it.
Format(x) == IF x.type = "int" THEN ToString(x.num \div 1000) ELSE FloatRepr(x.num)

\* str() of a currency inside an f-string.
CurrencyText(c) == IF c.type = "str" THEN c.str ELSE "None"

\* Mutant of deposit_checks: the currency check is missing.
deposit_checks_no_currency(acc, amount, currency) ==
    IF ~IsNumber(amount) THEN "Amount must be of type int or float"
    ELSE IF amount.num < 0 THEN "Amount cannot be negative"
    ELSE ""

\* Mutant of deposit_checks: the sign check is missing.
deposit_checks_no_sign(acc, amount, currency) ==
    IF ~IsNumber(amount) THEN "Amount must be of type int or float"
    ELSE IF currency # acc.currency THEN "Currency mismatch"
    ELSE ""

\* Mutant of deposit_checks: the currency is checked before the sign.
deposit_checks_currency_first(acc, amount, currency) ==
    IF ~IsNumber(amount) THEN "Amount must be of type int or float"
    ELSE IF currency # acc.currency THEN "Currency mismatch"
    ELSE IF amount.num < 0 THEN "Amount cannot be negative"
    ELSE ""

\* deposit's checks (the raise statements of its try block), in source
\* order: the message of the first check that fails, "" when all pass.
deposit_checks(acc, amount, currency) ==
    IF ~IsNumber(amount) THEN "Amount must be of type int or float"
    ELSE IF amount.num < 0 THEN "Amount cannot be negative"
    ELSE IF currency # acc.currency THEN "Currency mismatch"
    ELSE ""

\* Mutant of deposit: the record's id is the length of the log, without + 1.
deposit_id_from_zero(accts, self, amount, currency, now) ==
    LET acc == accts[self]
        error(a, m) == [accounts |-> a, outcome |-> Returned("Deposit error: " \o m)]
        failed == deposit_checks(acc, amount, currency)
        credited == [accts EXCEPT ![self].balance = @ + amount.num]
        transaction == Transaction(PyInt(Len(acc.transactions)), amount,
                                   PyStr("deposit"), PyDatetime(now), currency)
    IN  IF failed # "" THEN error(accts, failed)
        ELSE IF transaction.outcome.raised
          THEN error(credited, transaction.outcome.msg)
        ELSE [accounts |-> [credited EXCEPT ![self].transactions =
                                Append(@, transaction.value)],
              outcome |-> Returned("Deposit successful")]

\* Mutant of deposit: the record is inserted at the head of the log.
deposit_inserts_first(accts, self, amount, currency, now) ==
    LET acc == accts[self]
        error(a, m) == [accounts |-> a, outcome |-> Returned("Deposit error: " \o m)]
        failed == deposit_checks(acc, amount, currency)
        credited == [accts EXCEPT ![self].balance = @ + amount.num]
        transaction == Transaction(PyInt(Len(acc.transactions) + 1), amount,
                                   PyStr("deposit"), PyDatetime(now), currency)
    IN  IF failed # "" THEN error(accts, failed)
        ELSE IF transaction.outcome.raised
          THEN error(credited, transaction.outcome.msg)
        ELSE [accounts |-> [credited EXCEPT ![self].transactions =
                                <<transaction.value>> \o @],
              outcome |-> Returned("Deposit successful")]

\* Mutant of deposit: a deposit in another currency is not refused, the
\* account takes that currency.
deposit_adopts_currency(accts, self, amount, currency, now) ==
    LET acc == accts[self]
        error(a, m) == [accounts |-> a, outcome |-> Returned("Deposit error: " \o m)]
        failed == deposit_checks_no_currency(acc, amount, currency)
        credited == [accts EXCEPT ![self].balance = @ + amount.num,
                                  ![self].currency = currency]
        transaction == Transaction(PyInt(Len(acc.transactions) + 1), amount,
                                   PyStr("deposit"), PyDatetime(now), currency)
    IN  IF failed # "" THEN error(accts, failed)
        ELSE IF transaction.outcome.raised
          THEN error(credited, transaction.outcome.msg)
        ELSE [accounts |-> [credited EXCEPT ![self].transactions =
                                Append(@, transaction.value)],
              outcome |-> Returned("Deposit successful")]

\* Bankaccount.deposit on account `self` of the map `accts`.  The balance is
\* credited before the Transaction is constructed; `except Exception` turns
\* whatever is raised into the returned message.
deposit(accts, self, amount, currency, now) ==
    LET acc == accts[self]
        error(a, m) == [accounts |-> a, outcome |-> Returned("Deposit error: " \o m)]
        failed == deposit_checks(acc, amount, currency)
        credited == [accts EXCEPT ![self].balance = @ + amount.num]
        transaction == Transaction(PyInt(Len(acc.transactions) + 1), amount,
                                   PyStr("deposit"), PyDatetime(now), currency)
    IN  IF failed # "" THEN error(accts, failed)
        ELSE IF transaction.outcome.raised
          THEN error(credited, transaction.outcome.msg)
        ELSE [accounts |-> [credited EXCEPT ![self].transactions =
                                Append(@, transaction.value)],
              outcome |-> Returned("Deposit successful")]

\* Mutant of withdraw_checks: the balance check is missing.
withdraw_checks_no_funds(acc, amount, currency) ==
    IF ~IsNumber(amount) THEN "Value must be a number"
    ELSE IF amount.num < 0 THEN "Amount cannot be negative"
    ELSE IF currency # acc.currency THEN "Currency cannot be changed"
    ELSE ""

\* Mutant of withdraw_checks: the currency is checked before the sign.
withdraw_checks_currency_first(acc, amount, currency) ==
    IF ~IsNumber(amount) THEN "Value must be a number"
    ELSE IF currency # acc.currency THEN "Currency cannot be changed"
    ELSE IF amount.num < 0 THEN "Amount cannot be negative"
    ELSE IF amount.num > acc.balance THEN "Amount cannot be greater than balance"
    ELSE ""

\* withdraw's checks, in source order: the message of the first check that
\* fails, "" when all pass.
withdraw_checks(acc, amount, currency) ==
    IF ~IsNumber(amount) THEN "Value must be a number"
    ELSE IF amount.num < 0 THEN "Amount cannot be negative"
    ELSE IF currency # acc.currency THEN "Currency cannot be changed"
    ELSE IF amount.num > acc.balance THEN "Amount cannot be greater than balance"
    ELSE ""

\* Mutant of withdraw: the amount is taken from every account.
withdraw_debits_all(accts, self, amount, currency, now) ==
    LET acc == accts[self]
        error(a, m) == [accounts |-> a, outcome |-> Returned("Withdrawal error:" \o m)]
        failed == withdraw_checks(acc, amount, currency)
        debited == [i \in DOMAIN accts |-> [accts[i] EXCEPT !.balance = @ - amount.num]]
        withdraw_transaction ==
            Transaction(PyInt(Len(acc.transactions) + 1), amount,
                        PyStr("withdraw"), PyDatetime(now), currency)
    IN  IF failed # "" THEN error(accts, failed)
        ELSE IF withdraw_transaction.outcome.raised
          THEN error(debited, withdraw_transaction.outcome.msg)
        ELSE [accounts |-> [debited EXCEPT ![self].transactions =
                                Append(@, withdraw_transaction.value)],
              outcome |-> Returned("Withdrawal was successful")]

\* Bankaccount.withdraw on account `self` of the map `accts`.
withdraw(accts, self, amount, currency, now) ==
    LET acc == accts[self]
        error(a, m) == [accounts |-> a, outcome |-> Returned("Withdrawal error:" \o m)]
        failed == withdraw_checks(acc, amount, currency)
        debited == [accts EXCEPT ![self].balance = @ - amount.num]
        withdraw_transaction ==
            Transaction(PyInt(Len(acc.transactions) + 1), amount,
                        PyStr("withdraw"), PyDatetime(now), currency)
    IN  IF failed # "" THEN error(accts, failed)
        ELSE IF withdraw_transaction.outcome.raised
          THEN error(debited, withdraw_transaction.outcome.msg)
        ELSE [accounts |-> [debited EXCEPT ![self].transactions =
                                Append(@, withdraw_transaction.value)],
              outcome |-> Returned("Withdrawal was successful")]

\* Mutant of transfer_checks: the exchange rate is looked up before the
\* balance is checked.
transfer_checks_rate_first(self, target, amount, currency) ==
    IF ~IsNumber(amount)
      THEN Raised("TypeError", "'<=' not supported between instances of '"
                               \o amount.type \o "' and 'int'")
    ELSE IF amount.num <= 0
      THEN Raised("ValueError", "The transfer amount must be greater than 0..")
    ELSE IF currency # self.currency
      THEN Raised("ValueError", "The amount must be in your account currency..")
    ELSE IF ~get_exchange_rate(self.currency, target.currency).found
      THEN Raised("ValueError", "Unable to transfer: no exchange rate available.")
    ELSE IF amount.num > self.balance
      THEN Raised("ValueError", "Insufficient funds for transfer.")
    ELSE Returned("")

\* Mutant of transfer_checks: the balance check is missing.
transfer_checks_no_funds(self, target, amount, currency) ==
    IF ~IsNumber(amount)
      THEN Raised("TypeError", "'<=' not supported between instances of '"
                               \o amount.type \o "' and 'int'")
    ELSE IF amount.num <= 0
      THEN Raised("ValueError", "The transfer amount must be greater than 0..")
    ELSE IF currency # self.currency
      THEN Raised("ValueError", "The amount must be in your account currency..")
    ELSE IF ~get_exchange_rate(self.currency, target.currency).found
      THEN Raised("ValueError", "Unable to transfer: no exchange rate available.")
    ELSE Returned("")

\* transfer's checks, in source order: the outcome of the first check that
\* fails, Returned("") when all pass.  The amount is compared without a type
\* test, so a non-number raises TypeError out of `amount <= 0`.
transfer_checks(self, target, amount, currency) ==
    IF ~IsNumber(amount)
      THEN Raised("TypeError", "'<=' not supported between instances of '"
                               \o amount.type \o "' and 'int'")
    ELSE IF amount.num <= 0
      THEN Raised("ValueError", "The transfer amount must be greater than 0..")
    ELSE IF currency # self.currency
      THEN Raised("ValueError", "The amount must be in your account currency..")
    ELSE IF amount.num > self.balance
      THEN Raised("ValueError", "Insufficient funds for transfer.")
    ELSE IF ~get_exchange_rate(self.currency, target.currency).found
      THEN Raised("ValueError", "Unable to transfer: no exchange rate available.")
    ELSE Returned("")

\* Mutant of transfer: the credit leg is recorded in the source's currency.
transfer_credit_in_source_currency(accts, self, target, amount, currency, now, converted) ==
    LET except(a, o) == IF o.exc = "ValueError"
                          THEN [accounts |-> a,
                                outcome |-> Returned("Transfer error: " \o o.msg)]
                          ELSE [accounts |-> a, outcome |-> o]
        failed == transfer_checks(accts[self], accts[target], amount, currency)
        converted_amount == PyFloat(converted)
        debited == [accts EXCEPT ![self].balance = @ - amount.num]
        leg_to == Transaction(PyInt(Len(debited[self].transactions) + 1), amount,
                      PyStr("transfer_to_" \o ToString(debited[target].account_id)),
                      PyDatetime(now), debited[self].currency)
        logged == [debited EXCEPT ![self].transactions = Append(@, leg_to.value)]
        credited == [logged EXCEPT ![target].balance = @ + converted_amount.num]
        leg_from == Transaction(PyInt(Len(credited[target].transactions) + 1),
                      converted_amount,
                      PyStr("transfer_from_" \o ToString(credited[self].account_id)),
                      PyDatetime(now), credited[self].currency)
        done == [credited EXCEPT ![target].transactions = Append(@, leg_from.value)]
        formated_amount == IF converted_amount.num % 1000 = 0
                             THEN ToString(converted_amount.num \div 1000)
                             ELSE Format(converted_amount)
    IN  IF failed.raised THEN except(accts, failed)
        ELSE IF leg_to.outcome.raised THEN except(debited, leg_to.outcome)
        ELSE IF leg_from.outcome.raised THEN except(credited, leg_from.outcome)
        ELSE [accounts |-> done,
              outcome |-> Returned("Transfer completed. " \o Format(amount) \o " "
                             \o CurrencyText(done[self].currency) \o " → "
                             \o formated_amount \o " "
                             \o CurrencyText(done[target].currency))]

\* Bankaccount.transfer from account `self` to account `target` of the map
\* `accts` (the two may be the same object); `converted` is what round()
\* gave.  Each balance is updated before its Transaction is constructed.
\* Only ValueError is caught: any other exception escapes, with the updates
\* made so far in place.
transfer(accts, self, target, amount, currency, now, converted) ==
    LET except(a, o) == IF o.exc = "ValueError"
                          THEN [accounts |-> a,
                                outcome |-> Returned("Transfer error: " \o o.msg)]
                          ELSE [accounts |-> a, outcome |-> o]
        failed == transfer_checks(accts[self], accts[target], amount, currency)
        converted_amount == PyFloat(converted)
        debited == [accts EXCEPT ![self].balance = @ - amount.num]
        leg_to == Transaction(PyInt(Len(debited[self].transactions) + 1), amount,
                      PyStr("transfer_to_" \o ToString(debited[target].account_id)),
                      PyDatetime(now), debited[self].currency)
        logged == [debited EXCEPT ![self].transactions = Append(@, leg_to.value)]
        credited == [logged EXCEPT ![target].balance = @ + converted_amount.num]
        leg_from == Transaction(PyInt(Len(credited[target].transactions) + 1),
                      converted_amount,
                      PyStr("transfer_from_" \o ToString(credited[self].account_id)),
                      PyDatetime(now), credited[target].currency)
        done == [credited EXCEPT ![target].transactions = Append(@, leg_from.value)]
        formated_amount == IF converted_amount.num % 1000 = 0
                             THEN ToString(converted_amount.num \div 1000)
                             ELSE Format(converted_amount)
    IN  IF failed.raised THEN except(accts, failed)
        ELSE IF leg_to.outcome.raised THEN except(debited, leg_to.outcome)
        ELSE IF leg_from.outcome.raised THEN except(credited, leg_from.outcome)
        ELSE [accounts |-> done,
              outcome |-> Returned("Transfer completed. " \o Format(amount) \o " "
                             \o CurrencyText(done[self].currency) \o " → "
                             \o formated_amount \o " "
                             \o CurrencyText(done[target].currency))]

\* The amounts round() can yield for this call (one, unless the product is
\* an exact tie); a call that fails before the conversion yields none.
Conversions(accts, self, target, amount) ==
    LET rate == get_exchange_rate(accts[self].currency, accts[target].currency)
    IN  IF IsNumber(amount) /\ amount.num > 0 /\ rate.found
          THEN RoundOutcomes(amount.num, rate)
          ELSE {0}

\* ------------------------------------------------------------ serialization
\* A datetime counts half seconds since 2025-01-01T00:00:00, so that some
\* instants carry microseconds and some do not.
\* Mutant of isoformat: the microseconds are left out.
isoformat_seconds(time_stamp) ==
    LET seconds == time_stamp.num \div 2
    IN  "2025-01-01T00:00:"
            \o (IF seconds < 10 THEN "0" ELSE "") \o ToString(seconds)

\* datetime.isoformat(): the microseconds are printed unless they are zero.
isoformat(time_stamp) ==
    LET seconds == time_stamp.num \div 2
    IN  "2025-01-01T00:00:"
            \o (IF seconds < 10 THEN "0" ELSE "") \o ToString(seconds)
            \o (IF time_stamp.num % 2 = 1 THEN ".500000" ELSE "")

\* datetime.fromisoformat(x): TypeError unless x is a str, ValueError unless
\* the string is the ISO form of an instant (here: of the first minute).
fromisoformat(x) ==
    LET instants == {t \in 0..119 : isoformat(PyDatetime(t)) = x.str}
    IN  IF ~IsStr(x)
          THEN [outcome |-> Raised("TypeError", "fromisoformat: argument must be str"),
                value |-> PyNone]
        ELSE IF instants = {}
          THEN [outcome |-> Raised("ValueError", "Invalid isoformat string"),
                value |-> PyNone]
        ELSE [outcome |-> Returned(""),
              value |-> PyDatetime(CHOOSE t \in instants : TRUE)]

\* Transaction.to_dict.  A dict is a function of its keys.
Transaction_to_dict(t) ==
    [transaction_id |-> t.transaction_id,
     amount |-> t.amount,
     transaction_type |-> t.transaction_type,
     currency |-> t.currency,
     time_stamp |-> PyStr(isoformat(t.time_stamp))]

\* Transaction.from_dict: the five keys are read in the order of the call's
\* arguments (KeyError at the first that is missing), the time stamp is
\* parsed, then the Transaction is constructed.
Transaction_from_dict(data) ==
    LET keys == <<"transaction_id", "amount", "transaction_type", "currency",
                  "time_stamp">>
        missing == {k \in 1..5 : keys[k] \notin DOMAIN data}
        first == CHOOSE k \in missing : \A j \in missing : k <= j
        parsed == fromisoformat(data.time_stamp)
    IN  IF missing # {}
          THEN [outcome |-> Raised("KeyError", keys[first]), value |-> NoTransaction]
        ELSE IF parsed.outcome.raised
          THEN [outcome |-> parsed.outcome, value |-> NoTransaction]
        ELSE Transaction(data.transaction_id, data.amount, data.transaction_type,
                         parsed.value, data.currency)

\* Bankaccount.to_dict
Bankaccount_to_dict(acc) ==
    [account_id |-> acc.account_id,
     balance |-> acc.balance,
     currency |-> acc.currency,
     transactions |-> [k \in 1..Len(acc.transactions) |->
                          Transaction_to_dict(acc.transactions[k])]]

\* Mutant of Bankaccount.from_dict: the balance is recomputed from the
\* amounts of the transactions instead of taken from the data.
Bankaccount_from_dict_replays(data) ==
    LET required == {"account_id", "balance", "currency"}
        none == [outcome |-> Returned("Error loading account from dict"),
                 value |-> PyNone]
        list == IF "transactions" \in DOMAIN data THEN data.transactions ELSE <<>>
        loaded == [k \in 1..Len(list) |-> Transaction_from_dict(list[k])]
        bad == {k \in 1..Len(list) : loaded[k].outcome.raised}
        first == CHOOSE k \in bad : \A j \in bad : k <= j
        replayed[k \in 0..Len(list)] ==
            IF k = 0 THEN 0 ELSE replayed[k - 1] + loaded[k].value.amount.num
    IN  IF ~(required \subseteq DOMAIN data) THEN none
        ELSE IF bad = {}
          THEN [outcome |-> Returned(""),
                value |-> [account_id |-> data.account_id,
                           balance |-> replayed[Len(list)],
                           currency |-> data.currency,
                           transactions |-> [k \in 1..Len(list) |-> loaded[k].value]]]
        ELSE IF loaded[first].outcome.exc \in {"ValueError", "KeyError"} THEN none
        ELSE [outcome |-> loaded[first].outcome, value |-> PyNone]

\* Bankaccount.from_dict: the account is built from the three keys and the
\* transactions (none when the key is absent) are parsed and appended in
\* order.  KeyError and ValueError are caught: a message is printed and None
\* returned.  Any other exception escapes.
Bankaccount_from_dict(data) ==
    LET required == {"account_id", "balance", "currency"}
        none == [outcome |-> Returned("Error loading account from dict"),
                 value |-> PyNone]
        list == IF "transactions" \in DOMAIN data THEN data.transactions ELSE <<>>
        loaded == [k \in 1..Len(list) |-> Transaction_from_dict(list[k])]
        bad == {k \in 1..Len(list) : loaded[k].outcome.raised}
        first == CHOOSE k \in bad : \A j \in bad : k <= j
    IN  IF ~(required \subseteq DOMAIN data) THEN none
        ELSE IF bad = {}
          THEN [outcome |-> Returned(""),
                value |-> [account_id |-> data.account_id,
                           balance |-> data.balance,
                           currency |-> data.currency,
                           transactions |-> [k \in 1..Len(list) |-> loaded[k].value]]]
        ELSE IF loaded[first].outcome.exc \in {"ValueError", "KeyError"} THEN none
        ELSE [outcome |-> loaded[first].outcome, value |-> PyNone]

\* ------------------------------------------------------------ inputs
AccountIds == {1, 2}

InitBalances == {-2000, 500, 1000}

USD == PyStr("USD")
EUR == PyStr("EUR")
INR == PyStr("INR")

Currencies == {USD, EUR, INR, PyNone}

Amounts == {PyNone, PyFloat(-1000), PyInt(0), PyFloat(1000)}

\* The currency arguments tried on an account: its own currency and one
\* that differs from it.
CurrencyArgs(acc) == {acc.currency, IF acc.currency = EUR THEN USD ELSE EUR}

NoCall == [op |-> "none", self |-> 0, target |-> 0, amount |-> PyNone,
           currency |-> PyNone, outcome |-> Returned("")]

\* ------------------------------------------------------------ behaviour
\* `accounts` maps each account object to its fields; `initial` keeps the
\* accounts as constructed; `clock` counts the calls made and is what
\* datetime.now() reads; `last` is the call the caller has just made and not
\* yet moved on from: its arguments, its outcome and the accounts as they
\* were before it (op "none" while the caller is between calls).  `file` is
\* data/users.json, which only the command layer reads and writes.
NoFile == [exists |-> FALSE, users |-> <<>>]

Init ==
    /\ \E b \in [AccountIds -> InitBalances], c \in [AccountIds -> Currencies] :
           accounts = [i \in AccountIds |-> Bankaccount(i, b[i], c[i])]
    /\ initial = accounts
    /\ clock = 0
    /\ file = NoFile
    /\ last = [call |-> NoCall, pre |-> accounts]

Call(op, self, target, amount, currency, r) ==
    /\ last.call.op = "none"
    /\ clock < MaxCalls
    /\ clock' = clock + 1
    /\ accounts' = r.accounts
    /\ last' = [call |-> [op |-> op, self |-> self, target |-> target,
                          amount |-> amount, currency |-> currency,
                          outcome |-> r.outcome],
                pre |-> accounts]
    /\ UNCHANGED <<initial, file>>

Deposit ==
    \E self \in DOMAIN accounts, amount \in Amounts :
        \E currency \in CurrencyArgs(accounts[self]) :
            Call("deposit", self, 0, amount, currency,
                 deposit(accounts, self, amount, currency, clock + 1))

Withdraw ==
    \E self \in DOMAIN accounts, amount \in Amounts :
        \E currency \in CurrencyArgs(accounts[self]) :
            Call("withdraw", self, 0, amount, currency,
                 withdraw(accounts, self, amount, currency, clock + 1))

Transfer ==
    \E self \in DOMAIN accounts, target \in DOMAIN accounts, amount \in Amounts :
        \E currency \in CurrencyArgs(accounts[self]) :
            \E converted \in Conversions(accounts, self, target, amount) :
                Call("transfer", self, target, amount, currency,
                     transfer(accounts, self, target, amount, currency, clock + 1,
                              converted))

\* The caller takes the outcome (prints it, or sees the exception) and moves
\* on to its next command.
Continue ==
    /\ last.call.op # "none"
    /\ last' = [call |-> NoCall, pre |-> accounts]
    /\ UNCHANGED <<accounts, initial, clock, file>>

Next == Deposit \/ Withdraw \/ Transfer \/ Continue

Spec == Init /\ [][Next]_vars

\* ------------------------------------------------------------ transfers of fine amounts
\* Transfers between accounts of the three currencies of the rate table, of
\* amounts that include fractions of a cent: 99, 0.004, 0.005 and 1.008.
UAN == PyStr("UAN")

RoundingCurrencies == {USD, EUR, UAN}

RoundingBalances == {0, 500000}

RoundingAmounts == {PyInt(99000), PyFloat(4), PyFloat(5), PyFloat(1008)}

RoundingInit ==
    /\ \E b \in [AccountIds -> RoundingBalances],
          c \in [AccountIds -> RoundingCurrencies] :
           accounts = [i \in AccountIds |-> Bankaccount(i, b[i], c[i])]
    /\ initial = accounts
    /\ clock = 0
    /\ file = NoFile
    /\ last = [call |-> NoCall, pre |-> accounts]

FineTransfer ==
    \E self \in DOMAIN accounts, target \in DOMAIN accounts,
       amount \in RoundingAmounts :
        \E converted \in Conversions(accounts, self, target, amount) :
            Call("transfer", self, target, amount, accounts[self].currency,
                 transfer(accounts, self, target, amount, accounts[self].currency,
                          clock + 1, converted))

RoundingNext == FineTransfer \/ Continue

SpecRounding == RoundingInit /\ [][RoundingNext]_vars

\* ------------------------------------------------------------ amounts recorded
\* Deposits and withdrawals together with the transfers of fine amounts, on
\* USD and EUR accounts that hold 500 each.
AmountsInit ==
    /\ \E c \in [AccountIds -> {USD, EUR}] :
           accounts = [i \in AccountIds |-> Bankaccount(i, 500000, c[i])]
    /\ initial = accounts
    /\ clock = 0
    /\ file = NoFile
    /\ last = [call |-> NoCall, pre |-> accounts]

AmountsNext == Deposit \/ Withdraw \/ FineTransfer \/ Continue

SpecAmounts == AmountsInit /\ [][AmountsNext]_vars

\* ------------------------------------------------------------ three accounts
\* Calls on three accounts, some of them with a currency that is not a
\* string, so that a call always has an account it does not name.
FrameIds == {1, 2, 3}

FrameCurrencies == {USD, PyNone}

FrameAmounts == {PyFloat(-1000), PyFloat(1000)}

FrameInit ==
    /\ \E c \in [FrameIds -> FrameCurrencies] :
           accounts = [i \in FrameIds |-> Bankaccount(i, 1000, c[i])]
    /\ initial = accounts
    /\ clock = 0
    /\ file = NoFile
    /\ last = [call |-> NoCall, pre |-> accounts]

FrameDeposit ==
    \E self \in DOMAIN accounts, amount \in FrameAmounts :
        Call("deposit", self, 0, amount, accounts[self].currency,
             deposit(accounts, self, amount, accounts[self].currency, clock + 1))

FrameWithdraw ==
    \E self \in DOMAIN accounts, amount \in FrameAmounts :
        Call("withdraw", self, 0, amount, accounts[self].currency,
             withdraw(accounts, self, amount, accounts[self].currency, clock + 1))

FrameTransfer ==
    \E self \in DOMAIN accounts, target \in DOMAIN accounts, amount \in FrameAmounts :
        \E converted \in Conversions(accounts, self, target, amount) :
            Call("transfer", self, target, amount, accounts[self].currency,
                 transfer(accounts, self, target, amount, accounts[self].currency,
                          clock + 1, converted))

FrameNext == FrameDeposit \/ FrameWithdraw \/ FrameTransfer \/ Continue

SpecFrame == FrameInit /\ [][FrameNext]_vars

\* ------------------------------------------------------------ saving and loading
\* The operations on accounts, together with the round trip an account makes
\* when it is saved and loaded: to_dict, then from_dict of the result, the
\* loaded account taking the place of the saved one.
SerialCurrencies == {USD, EUR, PyNone}

SerialInit ==
    /\ \E c \in [AccountIds -> SerialCurrencies] :
           accounts = [i \in AccountIds |-> Bankaccount(i, 1000, c[i])]
    /\ initial = accounts
    /\ clock = 0
    /\ file = NoFile
    /\ last = [call |-> NoCall, pre |-> accounts]

RoundTrip ==
    \E self \in DOMAIN accounts :
        LET r == Bankaccount_from_dict(Bankaccount_to_dict(accounts[self]))
            isLoaded == ~r.outcome.raised /\ r.value # PyNone
        IN  /\ last.call.op = "none"
            /\ clock < MaxCalls
            /\ clock' = clock + 1
            /\ accounts' = IF isLoaded THEN [accounts EXCEPT ![self] = r.value]
                           ELSE accounts
            /\ last' = [call |-> [op |-> "round_trip", self |-> self, target |-> 0,
                                  amount |-> PyNone, currency |-> PyNone,
                                  outcome |-> r.outcome, value |-> r.value],
                        pre |-> accounts]
            /\ UNCHANGED <<initial, file>>

SerialNext == Deposit \/ Withdraw \/ Transfer \/ RoundTrip \/ Continue

SpecSerial == SerialInit /\ [][SerialNext]_vars

\* ------------------------------------------------------------ loading saved data
\* Bankaccount.from_dict applied to saved data that may be damaged: a key
\* missing, or a field of a transaction replaced by another value.  The data
\* is drawn at the start; `last.call` holds it and, once loaded, the result.
SavedTransaction ==
    [transaction_id |-> PyInt(1), amount |-> PyFloat(1000),
     transaction_type |-> PyStr("deposit"), currency |-> USD,
     time_stamp |-> PyStr("2025-01-01T00:00:01")]

\* del d[key]
Without(d, key) == [k \in DOMAIN d \ {key} |-> d[k]]

ReplacedValues == {PyNone, PyInt(7000), PyStr("not-a-date"), PyStr("   ")}

SavedTransactions ==
    {SavedTransaction}
        \cup {Without(SavedTransaction, k) : k \in DOMAIN SavedTransaction}
        \cup {[SavedTransaction EXCEPT ![k] = v] :
                  k \in DOMAIN SavedTransaction, v \in ReplacedValues}

SavedAccount(list) ==
    [account_id |-> 1, balance |-> 1000, currency |-> USD, transactions |-> list]

SavedAccounts ==
    {SavedAccount(<<>>)}
        \cup {SavedAccount(<<t>>) : t \in SavedTransactions}
        \cup {SavedAccount(<<SavedTransaction, t>>) : t \in SavedTransactions}
        \cup {SavedAccount(<<t, SavedTransaction>>) : t \in SavedTransactions}
        \cup {Without(SavedAccount(<<SavedTransaction>>), k) :
                  k \in {"account_id", "balance", "currency", "transactions"}}

LoadInit ==
    /\ accounts = <<>>
    /\ initial = accounts
    /\ clock = 0
    /\ file = NoFile
    /\ \E data \in SavedAccounts :
           last = [call |-> [op |-> "arguments", data |-> data,
                             outcome |-> Returned(""), value |-> PyNone],
                   pre |-> accounts]

FromDict ==
    /\ last.call.op = "arguments"
    /\ LET r == Bankaccount_from_dict(last.call.data)
       IN  last' = [last EXCEPT !.call.op = "from_dict",
                                !.call.outcome = r.outcome,
                                !.call.value = r.value]
    /\ UNCHANGED <<accounts, initial, clock, file>>

LoadNext == FromDict

SpecLoad == LoadInit /\ [][LoadNext]_vars

\* ------------------------------------------------------------ constructing transactions
\* Transaction(...) applied to arguments of right and wrong types.  The
\* arguments are drawn at the start; `last.call` holds them and, once the
\* constructor has run, its outcome and the object made.
IdArgs == {PyInt(1), PyStr("1"), PyNone}

AmountArgs == {PyFloat(1000), PyInt(0), PyStr("100"), PyNone}

KindArgs == {PyStr("deposit"), PyStr(""), PyStr("   "), PyStr("\n"), PyInt(1000),
             PyNone}

TimeStampArgs == {PyDatetime(1), PyStr("2025-01-01T00:00:01"), PyNone}

CurrencyValues == {USD, PyStr("usd"), PyInt(100000), PyNone}

ConstructInit ==
    /\ accounts = <<>>
    /\ initial = accounts
    /\ clock = 0
    /\ file = NoFile
    /\ \E id \in IdArgs, amount \in AmountArgs, kind \in KindArgs,
          time_stamp \in TimeStampArgs, currency \in CurrencyValues :
           last = [call |-> [op |-> "arguments", transaction_id |-> id,
                             amount |-> amount, transaction_type |-> kind,
                             time_stamp |-> time_stamp, currency |-> currency,
                             outcome |-> Returned(""), value |-> NoTransaction],
                   pre |-> accounts]

Construct ==
    /\ last.call.op = "arguments"
    /\ LET r == Transaction(last.call.transaction_id, last.call.amount,
                            last.call.transaction_type, last.call.time_stamp,
                            last.call.currency)
       IN  last' = [last EXCEPT !.call.op = "Transaction",
                                !.call.outcome = r.outcome,
                                !.call.value = r.value]
    /\ UNCHANGED <<accounts, initial, clock, file>>

ConstructNext == Construct

SpecConstruct == ConstructInit /\ [][ConstructNext]_vars

\* ------------------------------------------------------------ exchange-rate lookups
\* get_exchange_rate is a static method: it is applied to a pair of
\* currencies, with no account involved.  The pair is drawn at the start;
\* `last.call` holds it and, once looked up, the rate returned.
GBP == PyStr("GBP")

RateCurrencies == {USD, EUR, UAN, GBP, INR, PyStr("usd"), PyStr(""), PyNone}

RateInit ==
    /\ accounts = <<>>
    /\ initial = accounts
    /\ clock = 0
    /\ file = NoFile
    /\ \E f \in RateCurrencies, t \in RateCurrencies :
           last = [call |-> [op |-> "arguments", from_currency |-> f,
                             to_currency |-> t, result |-> NoRate],
                   pre |-> accounts]

GetExchangeRate ==
    /\ last.call.op = "arguments"
    /\ last' = [last EXCEPT
                   !.call.op = "get_exchange_rate",
                   !.call.result = get_exchange_rate(last.call.from_currency,
                                                     last.call.to_currency)]
    /\ UNCHANGED <<accounts, initial, clock, file>>

RateNext == GetExchangeRate

SpecRates == RateInit /\ [][RateNext]_vars

\* ------------------------------------------------------------ users and their file
\* User.__init__
User(username, surname, user_id) ==
    [user_id |-> user_id, username |-> username, surname |-> surname,
     accounts |-> <<>>]

NoUser == User("", "", 0)

\* Mutant of User.to_dict: the accounts are written last first.
User_to_dict_reversed(user) ==
    [user_id |-> user.user_id,
     username |-> user.username,
     surname |-> user.surname,
     accounts |-> [a \in 1..Len(user.accounts) |->
                      Bankaccount_to_dict(user.accounts[Len(user.accounts) + 1 - a])]]

\* User.to_dict
User_to_dict(user) ==
    [user_id |-> user.user_id,
     username |-> user.username,
     surname |-> user.surname,
     accounts |-> [a \in 1..Len(user.accounts) |->
                      Bankaccount_to_dict(user.accounts[a])]]

\* User.from_dict: username, surname and user_id are read first (KeyError at
\* the first that is missing); then each account of data.get("accounts", [])
\* is constructed from its three fields (KeyError likewise) and the records
\* of its .get("transactions", []) are parsed one by one by
\* Transaction.from_dict.  Nothing is caught, so the first failure ends the
\* load.  A failure is <<account, record, outcome>>, record 0 for a missing
\* field of the account.
User_from_dict(data) ==
    LET keys == <<"username", "surname", "user_id">>
        missing == {k \in 1..3 : keys[k] \notin DOMAIN data}
        accounts_data == IF "accounts" \in DOMAIN data THEN data.accounts ELSE <<>>
        fields == <<"account_id", "balance", "currency">>
        absent(a) == {k \in 1..3 : fields[k] \notin DOMAIN accounts_data[a]}
        transactions(a) ==
            IF "transactions" \in DOMAIN accounts_data[a]
              THEN accounts_data[a].transactions ELSE <<>>
        account(a, records) ==
            [Bankaccount(accounts_data[a].account_id, accounts_data[a].balance,
                         accounts_data[a].currency)
                EXCEPT !.transactions = [k \in DOMAIN records |-> records[k].value]]
        user(parsed, failures) ==
            IF missing # {}
              THEN [outcome |-> Raised("KeyError",
                                       keys[CHOOSE k \in missing :
                                                \A j \in missing : k <= j]),
                    value |-> NoUser]
            ELSE IF failures # {}
              THEN [outcome |-> (CHOOSE f \in failures : \A g \in failures :
                                     f[1] < g[1] \/ (f[1] = g[1] /\ f[2] <= g[2]))[3],
                    value |-> NoUser]
            ELSE [outcome |-> Returned(""),
                  value |-> [User(data.username, data.surname, data.user_id)
                                EXCEPT !.accounts =
                                    [a \in DOMAIN parsed |-> account(a, parsed[a])]]]
        failed(parsed) ==
            UNION {{<<a, 0, Raised("KeyError", fields[k])>> :
                        k \in {j \in absent(a) : \A i \in absent(a) : j <= i}}
                   \cup {<<a, k, parsed[a][k].outcome>> :
                            k \in {j \in DOMAIN parsed[a] : parsed[a][j].outcome.raised}} :
                   a \in DOMAIN parsed}
        read(parsed) == user(parsed, failed(parsed))
    IN  read([a \in 1..Len(accounts_data) |->
                 [k \in 1..Len(transactions(a)) |->
                     Transaction_from_dict(transactions(a)[k])]])

\* FileManager.save_all_users: the file is rewritten with the users' dicts.
\* The values saved are numbers, strings and lists of them, which json.dump
\* and json.load carry unchanged.
save_all_users(users) ==
    [exists |-> TRUE, users |-> [u \in 1..Len(users) |-> User_to_dict(users[u])]]

\* FileManager.load_all_users: no users when the file does not exist, else
\* the users read one by one.
load_all_users(f) ==
    LET users(read, failures) ==
            IF failures # {}
              THEN [outcome |-> read[CHOOSE u \in failures :
                                         \A v \in failures : u <= v].outcome,
                    value |-> <<>>]
            ELSE [outcome |-> Returned(""),
                  value |-> [u \in DOMAIN read |-> read[u].value]]
        loaded(read) == users(read, {u \in DOMAIN read : read[u].outcome.raised})
    IN  IF ~f.exists THEN [outcome |-> Returned(""), value |-> <<>>]
        ELSE loaded([u \in 1..Len(f.users) |-> User_from_dict(f.users[u])])

\* next((u for u in users if u.user_id == user_id), None): the position of
\* the first user with that id, 0 for None.
FirstUser(users, user_id) ==
    LET matches == {u \in 1..Len(users) : users[u].user_id = user_id}
    IN  IF matches = {} THEN 0 ELSE CHOOSE u \in matches : \A v \in matches : u <= v

\* User.get_account_by_id: the accounts are inspected in order, one line is
\* printed for each account inspected (the object's address is left out of
\* the line), and the first account with the id is returned: `index` is its
\* position, 0 for None.
get_account_by_id(user, account_id) ==
    LET matches == {a \in 1..Len(user.accounts) :
                        user.accounts[a].account_id = account_id}
        index == IF matches = {} THEN 0
                 ELSE CHOOSE a \in matches : \A b \in matches : a <= b
        inspected == IF index = 0 THEN Len(user.accounts) ELSE index
    IN  [index |-> index,
         printed |-> [a \in 1..inspected |->
                         "Account verification: <models.account.Bankaccount object>"]]

\* User.get_user_id(self): the attribute user_id of `self`, AttributeError
\* when `self` is a value that has none.
User_get_user_id(self) ==
    IF "user_id" \in DOMAIN self
      THEN [outcome |-> Returned(""), value |-> self.user_id]
    ELSE [outcome |-> Raised("AttributeError",
                             "'" \o self.type \o "' object has no attribute 'user_id'"),
          value |-> PyNone]

\* Userservice.get_user: User.get_user_id is called on the class, so that
\* the id takes the place of `self`.
Userservice_get_user(user_id) == User_get_user_id(user_id)

\* User.get_total_balance: sum() of the balances, from 0.
User_get_total_balance(user) ==
    LET total[k \in 0..Len(user.accounts)] ==
            IF k = 0 THEN 0 ELSE total[k - 1] + user.accounts[k].balance
    IN  total[Len(user.accounts)]

\* A dict with one more key, or another value for a key.
WithItem(d, key, value) ==
    [k \in DOMAIN d \cup {key} |-> IF k = key THEN value ELSE d[k]]

\* Mutant of User.get_balances_by_currency: the balance of an account
\* replaces what its currency had.
User_get_balances_by_currency_overwrites(user) ==
    LET balances[k \in 0..Len(user.accounts)] ==
            IF k = 0 THEN <<>>
            ELSE WithItem(balances[k - 1], user.accounts[k].currency,
                          user.accounts[k].balance)
    IN  balances[Len(user.accounts)]

\* User.get_balances_by_currency: the accounts are visited in order; the
\* balance of each is added to the entry of its currency, or starts it.
User_get_balances_by_currency(user) ==
    LET step(balances, account) ==
            IF account.currency \in DOMAIN balances
              THEN WithItem(balances, account.currency,
                            balances[account.currency] + account.balance)
            ELSE WithItem(balances, account.currency, account.balance)
        balances[k \in 0..Len(user.accounts)] ==
            IF k = 0 THEN <<>> ELSE step(balances[k - 1], user.accounts[k])
    IN  balances[Len(user.accounts)]

\* ------------------------------------------------------------ commands
\* What a command did: the file it left, the lines it printed, the number of
\* calls of save_all_users, and how it ended.
Done(f, printed, saves) ==
    [file |-> f, printed |-> printed, saves |-> saves, outcome |-> Returned("")]

\* The command ended with an exception: nothing was saved or printed.
Died(f, outcome) ==
    [file |-> f, printed |-> <<>>, saves |-> 0, outcome |-> outcome]

Max(S) == IF S = {} THEN 0 ELSE CHOOSE x \in S : \A y \in S : y <= x

\* Mutant of Userservice.register: the new user is put before the others.
Userservice_register_inserts_first(f, username, surname) ==
    LET command(users) ==
            LET new_id == Max({users[u].user_id : u \in 1..Len(users)}) + 1
                user == User(username, surname, new_id)
            IN  Done(save_all_users(<<user>> \o users),
                     <<"New user registered: " \o username \o " " \o surname
                           \o ", ID: " \o ToString(new_id)>>, 1)
        run(loaded) ==
            IF loaded.outcome.raised THEN Died(f, loaded.outcome)
            ELSE command(loaded.value)
    IN  run(load_all_users(f))

\* Userservice.register
Userservice_register(f, username, surname) ==
    LET command(users) ==
            LET new_id == Max({users[u].user_id : u \in 1..Len(users)}) + 1
                user == User(username, surname, new_id)
            IN  Done(save_all_users(Append(users, user)),
                     <<"New user registered: " \o username \o " " \o surname
                           \o ", ID: " \o ToString(new_id)>>, 1)
        run(loaded) ==
            IF loaded.outcome.raised THEN Died(f, loaded.outcome)
            ELSE command(loaded.value)
    IN  run(load_all_users(f))

\* AccountService.create_account: the account is appended to the user's
\* accounts whatever ids they have.
AccountService_create_account(f, user_id, account_id, currency) ==
    LET account == Bankaccount(account_id, 0, currency)
        command(users, u) ==
            IF u = 0 THEN Done(f, <<"User not found">>, 0)
            ELSE Done(save_all_users([users EXCEPT ![u].accounts = Append(@, account)]),
                      <<"Creating account ID " \o ToString(account_id) \o " by user "
                            \o users[u].username>>, 1)
        run(loaded) ==
            IF loaded.outcome.raised THEN Died(f, loaded.outcome)
            ELSE command(loaded.value, FirstUser(loaded.value, user_id))
    IN  run(load_all_users(f))

\* Mutant of AccountService.withdraw: the users are saved also when the
\* account was not found.
AccountService_withdraw_saves_always(f, user_id, account_id, amount, now) ==
    LET withdrawn(users, u, found, result) ==
            Done(save_all_users([users EXCEPT ![u].accounts = result.accounts]),
                 found.printed \o <<result.outcome.msg>>, 1)
        account(users, u, found) ==
            IF found.index = 0
              THEN Done(save_all_users(users),
                        found.printed \o <<"Account not found">>, 1)
            ELSE withdrawn(users, u, found,
                           withdraw(users[u].accounts, found.index, amount,
                                    users[u].accounts[found.index].currency, now))
        command(users, u) ==
            IF u = 0 THEN Done(f, <<"User not found">>, 0)
            ELSE account(users, u, get_account_by_id(users[u], account_id))
        run(loaded) ==
            IF loaded.outcome.raised THEN Died(f, loaded.outcome)
            ELSE command(loaded.value, FirstUser(loaded.value, user_id))
    IN  run(load_all_users(f))

\* AccountService.withdraw: the withdrawal is made in the account's own
\* currency, the users are saved and the result is printed.
AccountService_withdraw(f, user_id, account_id, amount, now) ==
    LET withdrawn(users, u, found, result) ==
            Done(save_all_users([users EXCEPT ![u].accounts = result.accounts]),
                 found.printed \o <<result.outcome.msg>>, 1)
        account(users, u, found) ==
            IF found.index = 0
              THEN Done(f, found.printed \o <<"Account not found">>, 0)
            ELSE withdrawn(users, u, found,
                           withdraw(users[u].accounts, found.index, amount,
                                    users[u].accounts[found.index].currency, now))
        command(users, u) ==
            IF u = 0 THEN Done(f, <<"User not found">>, 0)
            ELSE account(users, u, get_account_by_id(users[u], account_id))
        run(loaded) ==
            IF loaded.outcome.raised THEN Died(f, loaded.outcome)
            ELSE command(loaded.value, FirstUser(loaded.value, user_id))
    IN  run(load_all_users(f))

\* AccountService.deposit: the result of the deposit is dropped, the users
\* are saved and the same line is printed whatever the result was (its
\* Cyrillic word is transliterated).
AccountService_deposit(f, user_id, account_id, amount, now) ==
    LET deposited(users, u, found, result) ==
            Done(save_all_users([users EXCEPT ![u].accounts = result.accounts]),
                 found.printed \o <<"Account replenished " \o ToString(account_id)
                                        \o " na " \o Format(amount)>>, 1)
        account(users, u, found) ==
            IF found.index = 0
              THEN Done(f, found.printed \o <<"Account not found">>, 0)
            ELSE deposited(users, u, found,
                           deposit(users[u].accounts, found.index, amount,
                                   users[u].accounts[found.index].currency, now))
        command(users, u) ==
            IF u = 0 THEN Done(f, <<"User not found">>, 0)
            ELSE account(users, u, get_account_by_id(users[u], account_id))
        run(loaded) ==
            IF loaded.outcome.raised THEN Died(f, loaded.outcome)
            ELSE command(loaded.value, FirstUser(loaded.value, user_id))
    IN  run(load_all_users(f))

\* AccountService.transfer: both accounts are looked up among the user's
\* accounts; an exception of Bankaccount.transfer ends the command before
\* anything is saved.
AccountService_transfer(f, user_id, from_id, to_id, amount, now, converted) ==
    LET transferred(users, u, printed, result) ==
            IF result.outcome.raised THEN Died(f, result.outcome)
            ELSE Done(save_all_users([users EXCEPT ![u].accounts = result.accounts]),
                      printed \o <<result.outcome.msg>>, 1)
        both(users, u, from_acc, to_acc) ==
            IF from_acc.index = 0 \/ to_acc.index = 0
              THEN Done(f, from_acc.printed \o to_acc.printed
                               \o <<"One of the accounts was not found.">>, 0)
            ELSE transferred(users, u, from_acc.printed \o to_acc.printed,
                             transfer(users[u].accounts, from_acc.index, to_acc.index,
                                      amount, users[u].accounts[from_acc.index].currency,
                                      now, converted))
        command(users, u) ==
            IF u = 0 THEN Done(f, <<"User not found">>, 0)
            ELSE both(users, u, get_account_by_id(users[u], from_id),
                      get_account_by_id(users[u], to_id))
        run(loaded) ==
            IF loaded.outcome.raised THEN Died(f, loaded.outcome)
            ELSE command(loaded.value, FirstUser(loaded.value, user_id))
    IN  run(load_all_users(f))

\* ------------------------------------------------------------ command line
\* The commands of main.py run one at a time, each in its own process,
\* starting without data/users.json.  argparse makes ids integers, amounts
\* floats and currencies strings.
UserIds == {1, 2}

CliCurrencies == {USD, EUR}

CliAmounts == {PyFloat(-1000), PyFloat(0), PyFloat(1000)}

CliInit ==
    /\ accounts = <<>>
    /\ initial = accounts
    /\ clock = 0
    /\ file = NoFile
    /\ last = [call |-> NoCall, pre |-> accounts]

\* One command: `last` keeps its arguments, what it printed, how often it
\* saved, how it ended, and the file as it was before.
Command(op, args, r) ==
    /\ last.call.op = "none"
    /\ clock < MaxCommands
    /\ clock' = clock + 1
    /\ file' = r.file
    /\ last' = [call |-> [op |-> op, args |-> args, printed |-> r.printed,
                          saves |-> r.saves, outcome |-> r.outcome],
                pre |-> file]
    /\ UNCHANGED <<accounts, initial>>

Register ==
    Command("register", [username |-> "Ann", surname |-> "Lee"],
            Userservice_register(file, "Ann", "Lee"))

CreateAccount ==
    \E user_id \in UserIds, account_id \in AccountIds, currency \in CliCurrencies :
        Command("create-account",
                [user_id |-> user_id, account_id |-> account_id, currency |-> currency],
                AccountService_create_account(file, user_id, account_id, currency))

CliDeposit ==
    \E user_id \in UserIds, account_id \in AccountIds, amount \in CliAmounts :
        Command("deposit",
                [user_id |-> user_id, account_id |-> account_id, amount |-> amount],
                AccountService_deposit(file, user_id, account_id, amount, clock + 1))

CliWithdraw ==
    \E user_id \in UserIds, account_id \in AccountIds, amount \in CliAmounts :
        Command("withdraw",
                [user_id |-> user_id, account_id |-> account_id, amount |-> amount],
                AccountService_withdraw(file, user_id, account_id, amount, clock + 1))

\* The conversions open to a transfer between the accounts the two ids find.
CliConversions(f, user_id, from_id, to_id, amount) ==
    LET between(accts, s, t) ==
            IF s = 0 \/ t = 0 THEN {0} ELSE Conversions(accts, s, t, amount)
        of(user) ==
            between(user.accounts, get_account_by_id(user, from_id).index,
                    get_account_by_id(user, to_id).index)
        among(users, u) == IF u = 0 THEN {0} ELSE of(users[u])
        after(loaded) == among(loaded.value, FirstUser(loaded.value, user_id))
    IN  after(load_all_users(f))

CliTransfer ==
    \E user_id \in UserIds, from_id \in AccountIds, to_id \in AccountIds,
       amount \in CliAmounts :
        \E converted \in CliConversions(file, user_id, from_id, to_id, amount) :
            Command("transfer",
                    [user_id |-> user_id, from_id |-> from_id, to_id |-> to_id,
                     amount |-> amount],
                    AccountService_transfer(file, user_id, from_id, to_id, amount,
                                            clock + 1, converted))

CliNext == Register \/ CreateAccount \/ CliDeposit \/ CliWithdraw \/ CliTransfer
               \/ Continue

SpecCli == CliInit /\ [][CliNext]_vars

\* ------------------------------------------------------------ one user
\* A user with up to three accounts, in `accounts`: deposits build the logs,
\* and the methods of User and Userservice.get_user are called in between.
MaxAccounts == 3

UserBalances == {500}

UserCurrencies == {USD, EUR}

TheUser == [User("Ann", "Lee", 1) EXCEPT !.accounts = accounts]

UserInit ==
    /\ \E n \in 0..MaxAccounts :
           \E b \in [1..n -> UserBalances], c \in [1..n -> UserCurrencies] :
               accounts = [i \in 1..n |-> Bankaccount(i, b[i], c[i])]
    /\ initial = accounts
    /\ clock = 0
    /\ file = NoFile
    /\ last = [call |-> NoCall, pre |-> accounts]

UserDeposit ==
    \E self \in DOMAIN accounts :
        Call("deposit", self, 0, PyFloat(1000), accounts[self].currency,
             deposit(accounts, self, PyFloat(1000), accounts[self].currency, clock + 1))

\* A method that only reads the user: `last` keeps its arguments and result.
Method(op, args, r) ==
    /\ last.call.op = "none"
    /\ last' = [call |-> [op |-> op, args |-> args, outcome |-> r.outcome,
                          value |-> r.value],
                pre |-> accounts]
    /\ UNCHANGED <<accounts, initial, clock, file>>

GetTotalBalance ==
    Method("get_total_balance", <<>>,
           [outcome |-> Returned(""), value |-> User_get_total_balance(TheUser)])

GetBalancesByCurrency ==
    Method("get_balances_by_currency", <<>>,
           [outcome |-> Returned(""), value |-> User_get_balances_by_currency(TheUser)])

UserRoundTrip ==
    Method("round_trip", User_to_dict(TheUser), User_from_dict(User_to_dict(TheUser)))

\* The dicts tried on User.from_dict: the user's own with one key deleted,
\* or with one key deleted from one of its accounts.
EditedDicts(d) ==
    {Without(d, key) : key \in DOMAIN d}
        \cup {[d EXCEPT !.accounts[a] = Without(@, key)] :
                  a \in 1..Len(d.accounts),
                  key \in {"account_id", "balance", "currency", "transactions"}}

UserFromDict ==
    \E data \in EditedDicts(User_to_dict(TheUser)) :
        Method("from_dict", data, User_from_dict(data))

\* The arguments tried on get_user: ids, a user and None.
GetUserArgs == {PyInt(0), PyInt(1), PyInt(2), PyNone, TheUser}

GetUser ==
    \E user_id \in GetUserArgs :
        Method("get_user", user_id, Userservice_get_user(user_id))

UserNext == UserDeposit \/ GetTotalBalance \/ GetBalancesByCurrency \/ UserRoundTrip
                \/ UserFromDict \/ GetUser \/ Continue

SpecUsers == UserInit /\ [][UserNext]_vars

\* ------------------------------------------------------------ helpers of the claims
\* s.startswith(p)
StartsWith(s, p) == Len(s) >= Len(p) /\ SubSeq(s, 1, Len(p)) = p

IsCredit(t) == \/ t.transaction_type.str = "deposit"
               \/ StartsWith(t.transaction_type.str, "transfer_from_")

IsDebit(t) == \/ t.transaction_type.str = "withdraw"
              \/ StartsWith(t.transaction_type.str, "transfer_to_")

\* Sum of the amounts of the records of `log` that satisfy Keep.
SumWhere(log, Keep(_)) ==
    LET sum[k \in 0..Len(log)] ==
            IF k = 0 THEN 0
            ELSE sum[k - 1] + (IF Keep(log[k]) THEN log[k].amount.num ELSE 0)
    IN  sum[Len(log)]

\* The latest call and the accounts before it.
call == last.call
pre == last.pre
Called(op) == call.op = op

\* ------------------------------------------------------------ claims
\* C1: replay invariant.  In every reachable state every account's balance
\* equals its initial balance plus the amounts of its 'deposit' and
\* 'transfer_from_*' records minus the amounts of its 'withdraw' and
\* 'transfer_to_*' records.
C1_ReplayInvariant ==
    \A i \in DOMAIN accounts :
        accounts[i].balance =
            initial[i].balance + SumWhere(accounts[i].transactions, IsCredit)
                               - SumWhere(accounts[i].transactions, IsDebit)

\* The four updates of a transfer of `amount` from s to t, all applied: the
\* source debited and given one transfer_to record, the target credited with
\* the converted amount and given one transfer_from record of that amount.
TransferApplied(before, after, s, t, amount) ==
    LET ns == Len(before[s].transactions)
        nt == Len(before[t].transactions)
    IN  /\ IsNumber(amount)
        /\ \A i \in DOMAIN before :
               /\ after[i].account_id = before[i].account_id
               /\ after[i].currency = before[i].currency
               /\ i \notin {s, t} => after[i] = before[i]
        /\ IF s # t
             THEN /\ Len(after[s].transactions) = ns + 1
                  /\ SubSeq(after[s].transactions, 1, ns) = before[s].transactions
                  /\ StartsWith(after[s].transactions[ns + 1].transaction_type.str,
                                "transfer_to_")
                  /\ after[s].balance = before[s].balance - amount.num
                  /\ Len(after[t].transactions) = nt + 1
                  /\ SubSeq(after[t].transactions, 1, nt) = before[t].transactions
                  /\ StartsWith(after[t].transactions[nt + 1].transaction_type.str,
                                "transfer_from_")
                  /\ after[t].balance = before[t].balance
                                        + after[t].transactions[nt + 1].amount.num
             ELSE /\ Len(after[s].transactions) = ns + 2
                  /\ SubSeq(after[s].transactions, 1, ns) = before[s].transactions
                  /\ StartsWith(after[s].transactions[ns + 1].transaction_type.str,
                                "transfer_to_")
                  /\ StartsWith(after[s].transactions[ns + 2].transaction_type.str,
                                "transfer_from_")
                  /\ after[s].balance = before[s].balance - amount.num
                                        + after[s].transactions[ns + 2].amount.num

\* C2: transfer atomicity.  After any transfer call, whatever its outcome,
\* either all four updates have been applied or both accounts are exactly as
\* before the call.
C2_TransferAtomic ==
    Called("transfer") =>
        \/ accounts = pre
        \/ TransferApplied(pre, accounts, call.self, call.target, call.amount)

\* C3: a failed deposit or withdraw is a no-op.  Whenever deposit returns a
\* 'Deposit error' result or withdraw a 'Withdrawal error' result, the
\* account's balance and log are as before the call.
C3_FailedIsNoOp ==
    (\/ Called("deposit") /\ StartsWith(call.outcome.msg, "Deposit error")
     \/ Called("withdraw") /\ StartsWith(call.outcome.msg, "Withdrawal error"))
        => accounts = pre

\* Outcome messages.
IsSuccessMessage(op, m) ==
    \/ op = "deposit" /\ m = "Deposit successful"
    \/ op = "withdraw" /\ m = "Withdrawal was successful"
    \/ op = "transfer" /\ StartsWith(m, "Transfer completed.")

IsErrorMessage(op, m) ==
    \/ op = "deposit" /\ StartsWith(m, "Deposit error: ")
    \/ op = "withdraw" /\ StartsWith(m, "Withdrawal error:")
    \/ op = "transfer" /\ StartsWith(m, "Transfer error: ")

\* C4: operation failures are soft.  deposit, withdraw and transfer never
\* raise to the caller: for every amount and currency argument each returns
\* a success message or an error message.
C4_NeverRaises ==
    call.op \in {"deposit", "withdraw", "transfer"} =>
        /\ ~call.outcome.raised
        /\ \/ IsSuccessMessage(call.op, call.outcome.msg)
           \/ IsErrorMessage(call.op, call.outcome.msg)

\* The account the latest call was made on, before and after the call.
selfBefore == pre[call.self]
selfAfter == accounts[call.self]

\* The log of the account the call was made on gained exactly one record,
\* of the given kind, with the call's amount and the account's currency.
OneRecordAppended(kind) ==
    LET n == Len(selfBefore.transactions)
        log == selfAfter.transactions
    IN  /\ Len(log) = n + 1
        /\ SubSeq(log, 1, n) = selfBefore.transactions
        /\ log[n + 1].transaction_type = PyStr(kind)
        /\ log[n + 1].amount = call.amount
        /\ log[n + 1].currency = selfBefore.currency

\* C5: successful deposit effect.  For every account and every numeric
\* amount >= 0 in the account's currency, deposit returns 'Deposit
\* successful', the balance grows by the amount and the log gains exactly one
\* record, of kind 'deposit', with that amount and the account's currency.
C5_DepositEffect ==
    (/\ Called("deposit")
     /\ IsNumber(call.amount) /\ call.amount.num >= 0
     /\ call.currency = selfBefore.currency)
        => /\ call.outcome = Returned("Deposit successful")
           /\ selfAfter.balance = selfBefore.balance + call.amount.num
           /\ OneRecordAppended("deposit")

\* C6: successful withdrawal effect.  For every account and every numeric
\* amount with 0 <= amount <= balance in the account's currency, withdraw
\* returns 'Withdrawal was successful', the balance falls by the amount and
\* exactly one record of kind 'withdraw' with that amount is appended.
C6_WithdrawEffect ==
    (/\ Called("withdraw")
     /\ IsNumber(call.amount) /\ call.amount.num >= 0
     /\ call.amount.num <= selfBefore.balance
     /\ call.currency = selfBefore.currency)
        => /\ call.outcome = Returned("Withdrawal was successful")
           /\ selfAfter.balance = selfBefore.balance - call.amount.num
           /\ OneRecordAppended("withdraw")

InsufficientFunds ==
    Returned("Withdrawal error:Amount cannot be greater than balance")

\* C7 as stated: for every account, withdraw(amount, account currency) with
\* a numeric amount > balance is rejected with the insufficient-funds error
\* and leaves balance and log unchanged.
C7_InsufficientFundsAsStated ==
    (/\ Called("withdraw")
     /\ IsNumber(call.amount)
     /\ call.amount.num > selfBefore.balance
     /\ call.currency = selfBefore.currency)
        => call.outcome = InsufficientFunds /\ accounts = pre

\* C7 (amended): for every account, withdraw(amount, account currency) with
\* a numeric amount >= 0 that is greater than the balance is rejected with
\* the insufficient-funds error and leaves balance and log unchanged.
C7_InsufficientFunds ==
    (/\ Called("withdraw")
     /\ IsNumber(call.amount) /\ call.amount.num >= 0
     /\ call.amount.num > selfBefore.balance
     /\ call.currency = selfBefore.currency)
        => call.outcome = InsufficientFunds /\ accounts = pre

\* Witness of C7: an account with a positive balance was asked for more than
\* it holds and the withdrawal was rejected for lack of funds.
C7_Witness ==
    /\ Called("withdraw")
    /\ IsNumber(call.amount)
    /\ selfBefore.balance > 0
    /\ call.amount.num > selfBefore.balance
    /\ call.currency = selfBefore.currency
    /\ call.outcome = InsufficientFunds
    /\ selfAfter.balance = selfBefore.balance

\* C8: a currency mismatch is a no-op.  For deposit, withdraw and transfer,
\* whenever the supplied currency differs from the account's own currency,
\* the balances and logs of all accounts are unchanged, for every amount.
C8_CurrencyMismatchNoOp ==
    (/\ call.op \in {"deposit", "withdraw", "transfer"}
     /\ call.currency # selfBefore.currency)
        => accounts = pre

\* Witness of C8: an affordable positive amount was sent in the target's
\* currency, which is not the source's, and nothing was converted or moved.
C8_Witness ==
    /\ Called("transfer")
    /\ call.self # call.target
    /\ IsNumber(call.amount) /\ call.amount.num > 0
    /\ call.amount.num <= selfBefore.balance
    /\ call.currency # selfBefore.currency
    /\ call.currency = pre[call.target].currency
    /\ accounts = pre

\* C9: withdraw error precedence.  withdraw reports the error of the first
\* violated check in the order: amount is numeric, amount >= 0, currency is
\* the account's currency, amount <= balance.
C9_WithdrawPrecedence ==
    Called("withdraw") =>
        LET a == call.amount
            numeric == IsNumber(a)
            signed == numeric /\ a.num >= 0
            matched == signed /\ call.currency = selfBefore.currency
            message == call.outcome.msg
        IN  /\ ~call.outcome.raised
            /\ ~numeric => message = "Withdrawal error:Value must be a number"
            /\ (numeric /\ ~signed) =>
                   message = "Withdrawal error:Amount cannot be negative"
            /\ (signed /\ ~matched) =>
                   message = "Withdrawal error:Currency cannot be changed"
            /\ (matched /\ a.num > selfBefore.balance) =>
                   message = "Withdrawal error:Amount cannot be greater than balance"

\* Witness of C9: a negative amount in the wrong currency, on an account it
\* also exceeds the balance of, reported the negative-amount error.
C9_Witness ==
    /\ Called("withdraw")
    /\ IsNumber(call.amount) /\ call.amount.num < 0
    /\ call.currency # selfBefore.currency
    /\ call.amount.num > selfBefore.balance
    /\ call.outcome.msg = "Withdrawal error:Amount cannot be negative"

\* C10: transfer error precedence.  For a numeric amount, transfer reports
\* the error of the first violated check in the order: amount > 0, currency
\* is the source's currency, amount <= source balance, an exchange rate
\* exists for (source currency, target currency).
C10_TransferPrecedence ==
    (Called("transfer") /\ IsNumber(call.amount)) =>
        LET a == call.amount
            positive == a.num > 0
            matched == positive /\ call.currency = selfBefore.currency
            funded == matched /\ a.num <= selfBefore.balance
            rated == get_exchange_rate(selfBefore.currency,
                                       pre[call.target].currency).found
            message == call.outcome.msg
        IN  /\ ~positive =>
                   message = "Transfer error: The transfer amount must be greater than 0.."
            /\ (positive /\ ~matched) =>
                   message = "Transfer error: The amount must be in your account currency.."
            /\ (matched /\ ~funded) =>
                   message = "Transfer error: Insufficient funds for transfer."
            /\ (funded /\ ~rated) =>
                   message = "Transfer error: Unable to transfer: no exchange rate available."

\* Witness of C10: more than the source holds was sent towards a target
\* whose currency has no rate, and insufficient funds was reported.
C10_Witness ==
    /\ Called("transfer")
    /\ IsNumber(call.amount) /\ call.amount.num > selfBefore.balance
    /\ call.currency = selfBefore.currency
    /\ ~get_exchange_rate(selfBefore.currency, pre[call.target].currency).found
    /\ call.outcome.msg = "Transfer error: Insufficient funds for transfer."

\* C11: deposit error precedence.  deposit reports the error of the first
\* violated check in the order: amount is numeric, amount >= 0, currency is
\* the account's currency; it never checks the balance: whatever the balance,
\* an amount that passes the three checks meets no further check of deposit
\* (what is left is the construction of the record).
C11_DepositPrecedence ==
    Called("deposit") =>
        LET a == call.amount
            numeric == IsNumber(a)
            signed == numeric /\ a.num >= 0
            matched == signed /\ call.currency = selfBefore.currency
            message == call.outcome.msg
        IN  /\ ~call.outcome.raised
            /\ ~numeric =>
                   message = "Deposit error: Amount must be of type int or float"
            /\ (numeric /\ ~signed) =>
                   message = "Deposit error: Amount cannot be negative"
            /\ (signed /\ ~matched) => message = "Deposit error: Currency mismatch"
            /\ matched =>
                   message \in {"Deposit successful",
                                "Deposit error: Currency must be an string"}

\* Witness of C11: a negative amount in the wrong currency reported the
\* negative-amount error.
C11_Witness ==
    /\ Called("deposit")
    /\ IsNumber(call.amount) /\ call.amount.num < 0
    /\ call.currency # selfBefore.currency
    /\ call.outcome.msg = "Deposit error: Amount cannot be negative"

\* The record a successful transfer leg appends: the log grew by exactly this
\* one record, of the given kind, amount and currency.
LegAppended(before, after, kind, amount, currency) ==
    LET n == Len(before.transactions)
    IN  /\ Len(after.transactions) = n + 1
        /\ SubSeq(after.transactions, 1, n) = before.transactions
        /\ after.transactions[n + 1].transaction_type = PyStr(kind)
        /\ after.transactions[n + 1].amount.num = amount
        /\ after.transactions[n + 1].currency = currency

\* C12: successful transfer legs.  When all four transfer checks pass for
\* distinct source and target, the source's balance falls by exactly the
\* amount and its log gains one 'transfer_to_<target id>' record with the
\* amount and the source's currency; the target's balance grows by exactly the
\* converted amount and its log gains one 'transfer_from_<source id>' record
\* with the converted amount and the target's currency.
C12_TransferLegs ==
    (/\ Called("transfer")
     /\ call.self # call.target
     /\ IsNumber(call.amount) /\ call.amount.num > 0
     /\ call.currency = selfBefore.currency
     /\ call.amount.num <= selfBefore.balance
     /\ get_exchange_rate(selfBefore.currency, pre[call.target].currency).found)
        => \E converted \in RoundOutcomes(call.amount.num,
                 get_exchange_rate(selfBefore.currency, pre[call.target].currency)) :
               /\ selfAfter.balance = selfBefore.balance - call.amount.num
               /\ LegAppended(selfBefore, selfAfter,
                      "transfer_to_" \o ToString(pre[call.target].account_id),
                      call.amount.num, selfBefore.currency)
               /\ accounts[call.target].balance =
                      pre[call.target].balance + converted
               /\ LegAppended(pre[call.target], accounts[call.target],
                      "transfer_from_" \o ToString(selfBefore.account_id),
                      converted, pre[call.target].currency)

\* c is the amount a * rate rounded to whole hundredths: a whole number of
\* hundredths that is at most half a hundredth away from the product.
IsRounded(c, a, rate) ==
    LET diff == c * rate.den - a * rate.num
    IN  /\ c % 10 = 0
        /\ 2 * diff <= 10 * rate.den
        /\ -2 * diff <= 10 * rate.den

\* C13: conversion rounding.  In a successful transfer the target is credited
\* amount x rate(source currency, target currency) rounded to two decimal
\* places, and the source is debited the unrounded amount; 99 USD from a
\* 500 USD account to a 0 EUR account leaves 401 and 91.08.
C13_ConversionRounding ==
    (Called("transfer") /\ StartsWith(call.outcome.msg, "Transfer completed."))
        => LET s == call.self
               t == call.target
               a == call.amount.num
               rate == get_exchange_rate(pre[s].currency, pre[t].currency)
               credit == accounts[t].transactions[Len(accounts[t].transactions)]
               c == credit.amount.num
           IN  /\ rate.found
               /\ IsRounded(c, a, rate)
               /\ IF s # t
                    THEN /\ accounts[s].balance = pre[s].balance - a
                         /\ accounts[t].balance = pre[t].balance + c
                    ELSE accounts[s].balance = pre[s].balance - a + c
               /\ (/\ s # t /\ a = 99000
                   /\ pre[s].balance = 500000 /\ pre[s].currency = USD
                   /\ pre[t].balance = 0 /\ pre[t].currency = EUR)
                      => /\ accounts[s].balance = 401000
                         /\ accounts[t].balance = 91080

\* Witness of C13: 1.008 USD went to a EUR account, which was credited 0.93
\* while the source lost 1.008.
C13_Witness ==
    /\ Called("transfer")
    /\ call.self # call.target
    /\ call.amount = PyFloat(1008)
    /\ selfBefore.currency = USD /\ pre[call.target].currency = EUR
    /\ selfAfter.balance = selfBefore.balance - 1008
    /\ accounts[call.target].balance = pre[call.target].balance + 930

\* The value of a rate is n/d.
RateIs(rate, n, d) == rate.found /\ rate.num * d = n * rate.den

\* C14: exchange-rate lookup.  get_exchange_rate(from, to) returns 1.0
\* whenever from = to, for every currency, also outside {USD, EUR, UAN}, the
\* same-currency rule coming before the table; it returns the table's rate for
\* the 6 directed pairs of distinct currencies of {USD, EUR, UAN} (USD->UAN is
\* 39.5, USD->EUR 0.92, the opposite directions their reciprocals, UAN<->EUR
\* composed through USD); and it returns not-found for every other pair.
C14_ExchangeRateLookup ==
    Called("get_exchange_rate") =>
        LET f == call.from_currency
            t == call.to_currency
            table == {USD, EUR, UAN}
            rate == call.result
            pair(a, b) == f = a /\ t = b
        IN  /\ f = t => rate = Rate(1, 1)
            /\ pair(USD, UAN) => RateIs(rate, 395, 10)
            /\ pair(UAN, USD) => RateIs(rate, 10, 395)
            /\ pair(USD, EUR) => RateIs(rate, 92, 100)
            /\ pair(EUR, USD) => RateIs(rate, 100, 92)
            /\ pair(UAN, EUR) => RateIs(rate, 10 * 92, 395 * 100)
            /\ pair(EUR, UAN) => RateIs(rate, 100 * 395, 92 * 10)
            /\ (f # t /\ ~(f \in table /\ t \in table)) => ~rate.found

\* Witness of C14: a currency outside the table, looked up against itself,
\* got the rate 1.0.
C14_Witness ==
    /\ Called("get_exchange_rate")
    /\ call.from_currency = GBP /\ call.to_currency = GBP
    /\ call.result = Rate(1, 1)

\* C15: serialization round trip.  For every account reachable by the
\* constructor and deposit, withdraw, transfer, from_dict(to_dict(a)) yields
\* an account with the same id, balance and currency and a log of the same
\* length and order whose records agree in id, kind, amount, currency and
\* time stamp; and Transaction.from_dict(t.to_dict()) reproduces every field
\* of every record t.
C15_RoundTrip ==
    /\ \A i \in DOMAIN accounts : \A k \in 1..Len(accounts[i].transactions) :
           LET t == accounts[i].transactions[k]
               back == Transaction_from_dict(Transaction_to_dict(t))
           IN  /\ ~back.outcome.raised
               /\ back.value.transaction_id = t.transaction_id
               /\ back.value.transaction_type = t.transaction_type
               /\ back.value.amount = t.amount
               /\ back.value.currency = t.currency
               /\ back.value.time_stamp = t.time_stamp
    /\ Called("round_trip") =>
           LET a == selfBefore
               b == call.value
           IN  /\ ~call.outcome.raised
               /\ b # PyNone
               /\ b.account_id = a.account_id
               /\ b.balance = a.balance
               /\ b.currency = a.currency
               /\ Len(b.transactions) = Len(a.transactions)
               /\ \A k \in 1..Len(a.transactions) :
                      b.transactions[k] = a.transactions[k]
               /\ selfAfter = b

\* Witness of C15: an account whose log holds both legs of a transfer to
\* itself, one stamped with microseconds, was saved and loaded.
C15_Witness ==
    /\ Called("round_trip")
    /\ Len(selfBefore.transactions) = 2
    /\ selfBefore.transactions[1].time_stamp.num % 2 = 1
    /\ call.value = selfBefore

\* A saved transaction that does not parse: a field is missing, the time
\* stamp is not the ISO string of an instant, a field has the wrong type, or
\* the kind is blank.
FailsToParse(d) ==
    \/ \E k \in {"transaction_id", "amount", "transaction_type", "currency",
                 "time_stamp"} : k \notin DOMAIN d
    \/ ~IsStr(d.time_stamp)
    \/ \A t \in 0..119 : isoformat(PyDatetime(t)) # d.time_stamp.str
    \/ ~IsInt(d.transaction_id)
    \/ ~IsNumber(d.amount)
    \/ ~IsStr(d.transaction_type)
    \/ Strip(d.transaction_type.str) = ""
    \/ ~IsStr(d.currency)

\* C16: deserialization failure is an absent result.  Bankaccount.from_dict
\* returns None, and does not raise, whenever one of the keys account_id,
\* balance, currency is missing and whenever an entry of data['transactions']
\* fails to parse (missing field, unparsable time stamp, field of the wrong
\* type).
C16_LoadFailureIsNone ==
    Called("from_dict") =>
        LET data == call.data
            list == IF "transactions" \in DOMAIN data THEN data.transactions
                    ELSE <<>>
            damaged ==
                \/ \E k \in {"account_id", "balance", "currency"} :
                       k \notin DOMAIN data
                \/ \E k \in 1..Len(list) : FailsToParse(list[k])
        IN  damaged => ~call.outcome.raised /\ call.value = PyNone

\* The latest constructor call failed with the given exception and made no
\* object.
FailedWith(exc) ==
    /\ call.outcome.raised
    /\ call.outcome.exc = exc
    /\ call.value = NoTransaction

IsBlank(kind) == IsStr(kind) /\ Strip(kind.str) = ""

\* C17 as stated: Transaction(id, amount, kind, timestamp, currency) fails
\* with TypeError, producing no object, whenever id is not an integer, amount
\* is not an int/float, kind is not a string, timestamp is not a datetime or
\* currency is not a string, whatever the values of the other fields.
C17_TypeErrorsAsStated ==
    (/\ Called("Transaction")
     /\ \/ ~IsInt(call.transaction_id)
        \/ ~IsNumber(call.amount)
        \/ ~IsStr(call.transaction_type)
        \/ ~IsDatetime(call.time_stamp)
        \/ ~IsStr(call.currency))
        => FailedWith("TypeError")

\* C17 (amended): Transaction(...) fails with TypeError, producing no object,
\* whenever id is not an integer, amount is not an int/float or kind is not a
\* string, whatever the other fields; and whenever timestamp is not a
\* datetime or currency is not a string, provided kind is not a blank string.
C17_TypeErrors ==
    (/\ Called("Transaction")
     /\ \/ ~IsInt(call.transaction_id)
        \/ ~IsNumber(call.amount)
        \/ ~IsStr(call.transaction_type)
        \/ /\ ~IsBlank(call.transaction_type)
           /\ ~IsDatetime(call.time_stamp) \/ ~IsStr(call.currency))
        => FailedWith("TypeError")

\* Witness of C17: only the currency was of the wrong type, and the
\* construction failed with TypeError.
C17_Witness ==
    /\ Called("Transaction")
    /\ IsInt(call.transaction_id) /\ IsNumber(call.amount)
    /\ IsStr(call.transaction_type) /\ ~IsBlank(call.transaction_type)
    /\ IsDatetime(call.time_stamp)
    /\ ~IsStr(call.currency)
    /\ FailedWith("TypeError")

\* Every type check passes and the kind is not blank.
WellFormed ==
    /\ IsInt(call.transaction_id) /\ IsNumber(call.amount)
    /\ IsStr(call.transaction_type) /\ ~IsBlank(call.transaction_type)
    /\ IsDatetime(call.time_stamp) /\ IsStr(call.currency)

\* The object made holds the five arguments verbatim.
StoredVerbatim ==
    /\ ~call.outcome.raised
    /\ call.value.transaction_id = call.transaction_id
    /\ call.value.amount = call.amount
    /\ call.value.transaction_type = call.transaction_type
    /\ call.value.time_stamp = call.time_stamp
    /\ call.value.currency = call.currency

\* C18 as stated: construction fails with ValueError whenever kind is a
\* string that is empty after trimming whitespace, an error distinct from the
\* type error; it succeeds, storing all five fields verbatim, exactly when
\* every type check passes and kind is non-blank.
C18_EmptyKindAsStated ==
    Called("Transaction") =>
        /\ IsBlank(call.transaction_type) => FailedWith("ValueError")
        /\ WellFormed <=> StoredVerbatim

\* C18 (amended): construction fails with ValueError whenever id is an
\* integer, amount is an int/float and kind is a string that is empty after
\* trimming whitespace, an error distinct from the type error; it succeeds,
\* storing all five fields verbatim, exactly when every type check passes and
\* kind is non-blank.
C18_EmptyKind ==
    Called("Transaction") =>
        /\ (/\ IsInt(call.transaction_id) /\ IsNumber(call.amount)
            /\ IsBlank(call.transaction_type)) => FailedWith("ValueError")
        /\ WellFormed <=> StoredVerbatim

\* Witness of C18: a kind of three spaces, every other argument well typed,
\* failed with ValueError.
C18_Witness ==
    /\ Called("Transaction")
    /\ call.transaction_type = PyStr("   ")
    /\ IsInt(call.transaction_id) /\ IsNumber(call.amount)
    /\ IsDatetime(call.time_stamp) /\ IsStr(call.currency)
    /\ FailedWith("ValueError")

\* C19: per-account transaction ids.  In every account reachable from the
\* constructor by deposit, withdraw, transfer (as source, target or both) and
\* to_dict/from_dict round trips, the k-th record of the log has id k; so the
\* ids of one log are positive and pairwise distinct, while the same id may
\* occur in different accounts.
C19_TransactionIds ==
    \A i \in DOMAIN accounts :
        LET log == accounts[i].transactions
        IN  /\ \A k \in 1..Len(log) : log[k].transaction_id = PyInt(k)
            /\ \A j, k \in 1..Len(log) :
                   /\ log[k].transaction_id.num > 0
                   /\ j # k => log[j].transaction_id # log[k].transaction_id

\* Witness of C19: after a transfer between two accounts the source's log
\* holds two records and the target's one, whose id also occurs in the
\* source's log.
C19_Witness ==
    /\ Called("transfer")
    /\ call.self # call.target
    /\ Len(selfAfter.transactions) = 2
    /\ Len(accounts[call.target].transactions) = 1
    /\ accounts[call.target].transactions[1].transaction_id
           = selfAfter.transactions[1].transaction_id

\* log is an initial part of longer.
IsPrefix(log, longer) ==
    /\ Len(log) <= Len(longer)
    /\ \A k \in 1..Len(log) : longer[k] = log[k]

\* The kinds of the records of a log, in order.
Kinds(log) == [k \in 1..Len(log) |-> log[k].transaction_type.str]

\* C20: append-only ordered log.  At every step each account's log before
\* the step is a prefix of its log after it; a successful deposit or withdraw
\* appends exactly one record, of its kind, to the end of the account's log
\* and a failed one appends nothing, so that the kinds in the log are the
\* successful operations in the order they were invoked.
C20_AppendOnlyLog ==
    /\ \A i \in DOMAIN accounts :
           IsPrefix(pre[i].transactions, accounts[i].transactions)
    /\ call.op \in {"deposit", "withdraw"} =>
           /\ \A i \in DOMAIN accounts \ {call.self} :
                  accounts[i].transactions = pre[i].transactions
           /\ Kinds(selfAfter.transactions) =
                  IF IsSuccessMessage(call.op, call.outcome.msg)
                    THEN Append(Kinds(selfBefore.transactions), call.op)
                    ELSE Kinds(selfBefore.transactions)

\* Witness of C20: a withdrawal succeeded on an account that had a deposit in
\* its log, which now reads deposit, withdraw.
C20_Witness ==
    /\ Called("withdraw")
    /\ call.outcome.msg = "Withdrawal was successful"
    /\ Kinds(selfAfter.transactions) = <<"deposit", "withdraw">>

\* C21: currency and id are fixed.  No deposit, withdraw or transfer call,
\* successful or failed, changes the currency or the account_id of any
\* account: both keep the values given at construction in every reachable
\* state.
C21_CurrencyAndIdFixed ==
    \A i \in DOMAIN accounts :
        /\ accounts[i].currency = initial[i].currency
        /\ accounts[i].account_id = initial[i].account_id
        /\ accounts[i].currency = pre[i].currency
        /\ accounts[i].account_id = pre[i].account_id

\* Witness of C21: a transfer between accounts of different currencies was
\* completed and each account kept its currency.
C21_Witness ==
    /\ Called("transfer")
    /\ StartsWith(call.outcome.msg, "Transfer completed.")
    /\ selfBefore.currency # pre[call.target].currency
    /\ selfAfter.currency = selfBefore.currency
    /\ accounts[call.target].currency = pre[call.target].currency

\* C22: record currency matches owner.  In every account reachable from the
\* constructor by deposit, withdraw and transfer, every record of the log
\* carries the account's currency; in particular the credit leg of a
\* cross-currency transfer is recorded in the target's currency, not the
\* source's.
C22_RecordCurrency ==
    \A i \in DOMAIN accounts : \A k \in 1..Len(accounts[i].transactions) :
        accounts[i].transactions[k].currency = accounts[i].currency

\* Witness of C22: a transfer between accounts of different currencies left
\* a transfer_from record in the target's log, in the target's currency.
C22_Witness ==
    /\ Called("transfer")
    /\ selfBefore.currency # pre[call.target].currency
    /\ Len(accounts[call.target].transactions)
           = Len(pre[call.target].transactions) + 1
    /\ LET log == accounts[call.target].transactions
       IN  /\ StartsWith(log[Len(log)].transaction_type.str, "transfer_from_")
           /\ log[Len(log)].currency = pre[call.target].currency

SameRecord(d, t) ==
    /\ t.transaction_id = d.transaction_id
    /\ t.amount = d.amount
    /\ t.transaction_type = d.transaction_type
    /\ t.currency = d.currency
    /\ IsDatetime(t.time_stamp)
    /\ isoformat(t.time_stamp) = d.time_stamp.str

\* C26: deserialization trusts the snapshot.  Whenever the three keys are
\* present and every listed transaction parses, Bankaccount.from_dict returns
\* an account whose balance is data['balance'] and whose log is the listed
\* transactions in their given order, nothing being replayed or checked
\* against the balance: the restored balance is the snapshot's also when the
\* transactions do not add up to it.
C26_TrustsSnapshot ==
    Called("from_dict") =>
        LET data == call.data
            list == IF "transactions" \in DOMAIN data THEN data.transactions
                    ELSE <<>>
            sound == /\ {"account_id", "balance", "currency"} \subseteq DOMAIN data
                     /\ \A k \in 1..Len(list) : ~FailsToParse(list[k])
        IN  sound =>
                /\ ~call.outcome.raised
                /\ call.value # PyNone
                /\ call.value.account_id = data.account_id
                /\ call.value.balance = data.balance
                /\ call.value.currency = data.currency
                /\ Len(call.value.transactions) = Len(list)
                /\ \A k \in 1..Len(list) :
                       SameRecord(list[k], call.value.transactions[k])

\* Witness of C26: data with balance 1 and two deposits, of 1 and of 7, was
\* loaded: the account holds 1 and both records, in that order.
C26_Witness ==
    /\ Called("from_dict")
    /\ call.value # PyNone
    /\ call.value.balance = 1000
    /\ Len(call.value.transactions) = 2
    /\ call.value.transactions[1].amount = PyFloat(1000)
    /\ call.value.transactions[2].amount = PyInt(7000)
    /\ call.value.transactions[2].transaction_type = PyStr("deposit")

\* C27: zero amounts.  A deposit of 0 and a withdrawal of 0 (matching
\* currency, balance >= 0) both succeed, leave the balance unchanged and
\* append one record each; a transfer of amount 0 is rejected with the
\* non-positive-amount error and appends nothing to either log.
C27_ZeroAmounts ==
    LET zero == IsNumber(call.amount) /\ call.amount.num = 0
        matched == call.currency = selfBefore.currency
    IN  /\ (Called("deposit") /\ zero /\ matched) =>
               /\ call.outcome = Returned("Deposit successful")
               /\ selfAfter.balance = selfBefore.balance
               /\ OneRecordAppended("deposit")
        /\ (Called("withdraw") /\ zero /\ matched /\ selfBefore.balance >= 0) =>
               /\ call.outcome = Returned("Withdrawal was successful")
               /\ selfAfter.balance = selfBefore.balance
               /\ OneRecordAppended("withdraw")
        /\ (Called("transfer") /\ zero) =>
               /\ call.outcome = Returned(
                      "Transfer error: The transfer amount must be greater than 0..")
               /\ accounts = pre

\* C28: transfer messages.  A successful transfer returns 'Transfer
\* completed. <amount> <source currency> → <converted> <target currency>',
\* the converted amount printed as an integer literal when it has no
\* fractional part and with its decimal digits otherwise; every failed
\* transfer returns a message starting with 'Transfer error:'.
C28_TransferMessage ==
    Called("transfer") =>
        LET s == call.self
            t == call.target
            applied == TransferApplied(pre, accounts, s, t, call.amount)
            credit == accounts[t].transactions[Len(accounts[t].transactions)]
            c == credit.amount.num
            shown == IF c % 1000 = 0 THEN ToString(c \div 1000) ELSE FloatRepr(c)
        IN  IF applied
              THEN call.outcome =
                       Returned("Transfer completed. " \o Format(call.amount) \o " "
                                \o pre[s].currency.str \o " → " \o shown \o " "
                                \o pre[t].currency.str)
              ELSE /\ ~call.outcome.raised
                   /\ StartsWith(call.outcome.msg, "Transfer error:")

\* The users of a file that have the id, and the accounts of a saved user
\* that have the id.
UsersWithId(f, user_id) == {u \in 1..Len(f.users) : f.users[u].user_id = user_id}

AccountsWithId(user, account_id) ==
    {a \in 1..Len(user.accounts) : user.accounts[a].account_id = account_id}

\* The number of records in all the logs of a file.
RECURSIVE Records(_, _, _)
Records(f, u, a) ==
    IF u > Len(f.users) THEN 0
    ELSE IF a > Len(f.users[u].accounts) THEN Records(f, u + 1, 1)
    ELSE Len(f.users[u].accounts[a].transactions) + Records(f, u, a + 1)

LastPrinted == call.printed[Len(call.printed)]

\* C24: the commands deposit, withdraw and transfer call save_all_users only
\* when the operation on the account succeeded (a record was appended to a
\* log); when the operation returns an error result, nothing is saved.
C24_SaveOnlyOnSuccess ==
    (call.op \in {"deposit", "withdraw", "transfer"} /\ call.saves > 0) =>
        Records(file, 1, 1) > Records(pre, 1, 1)

\* C25: no two accounts of a user have the same account_id.
C25_UniqueAccountIds ==
    \A u \in 1..Len(file.users) : \A a, b \in 1..Len(file.users[u].accounts) :
        file.users[u].accounts[a].account_id = file.users[u].accounts[b].account_id
            => a = b

\* The user a command's user_id finds in the file as it was: the first with
\* that id.
UserFound ==
    LET users == UsersWithId(pre, call.args.user_id)
    IN  pre.users[CHOOSE u \in users : \A v \in users : u <= v]

NothingSaved == file = pre /\ call.saves = 0

\* C29: for the commands withdraw, deposit, transfer and create-account,
\* when no user has the user_id the command prints 'User not found'; when
\* the user exists but an account id of the command finds no account it
\* prints 'Account not found' (transfer: 'One of the accounts was not
\* found.'); in these cases the file is left as it was and save_all_users is
\* not called.
C29_NotFoundPaths ==
    call.op \in {"withdraw", "deposit", "transfer", "create-account"} =>
        IF UsersWithId(pre, call.args.user_id) = {}
          THEN call.printed = <<"User not found">> /\ NothingSaved
        ELSE /\ (/\ call.op \in {"withdraw", "deposit"}
                 /\ AccountsWithId(UserFound, call.args.account_id) = {})
                    => LastPrinted = "Account not found" /\ NothingSaved
             /\ (/\ call.op = "transfer"
                 /\ \/ AccountsWithId(UserFound, call.args.from_id) = {}
                    \/ AccountsWithId(UserFound, call.args.to_id) = {})
                    => LastPrinted = "One of the accounts was not found."
                           /\ NothingSaved

\* A transfer of a registered user from an account that exists to one that
\* does not.
C29_Witness ==
    /\ call.op = "transfer"
    /\ UsersWithId(pre, call.args.user_id) # {}
    /\ AccountsWithId(UserFound, call.args.from_id) # {}
    /\ AccountsWithId(UserFound, call.args.to_id) = {}
    /\ LastPrinted = "One of the accounts was not found."
    /\ NothingSaved

\* C30: register gives the new user the largest user id of the file plus
\* one (1 when there are no users), puts the user after the others, which
\* stay as they were, and saves once; the user ids of the file are pairwise
\* distinct.
C30_RegistrationIds ==
    /\ \A u, v \in 1..Len(file.users) :
           file.users[u].user_id = file.users[v].user_id => u = v
    /\ call.op = "register" =>
           LET n == Len(pre.users)
               ids == {pre.users[u].user_id : u \in 1..n}
               new_id == file.users[n + 1].user_id
           IN  /\ Len(file.users) = n + 1
               /\ \A u \in 1..n : file.users[u] = pre.users[u]
               /\ IF ids = {} THEN new_id = 1
                  ELSE \E m \in ids : new_id = m + 1 /\ \A i \in ids : i <= m
               /\ file.users[n + 1].accounts = <<>>
               /\ call.saves = 1

\* A second user is registered after one who has an account.
C30_Witness ==
    /\ call.op = "register"
    /\ Len(pre.users) = 1
    /\ pre.users[1].accounts # <<>>
    /\ file.users[2].user_id = 2
    /\ file.users[1] = pre.users[1]

C35_SameCurrencyConserves ==
    (/\ Called("transfer")
     /\ call.self # call.target
     /\ pre[call.self].currency = pre[call.target].currency
     /\ StartsWith(call.outcome.msg, "Transfer completed."))
        => /\ accounts[call.target].balance - pre[call.target].balance
                  = pre[call.self].balance - accounts[call.self].balance
           /\ accounts[call.self].balance + accounts[call.target].balance
                  = pre[call.self].balance + pre[call.target].balance

\* C36: self-transfer.  A successful transfer whose target is the source
\* account itself leaves the account's balance as it was and appends exactly
\* two records to its log, 'transfer_to_<id>' followed by
\* 'transfer_from_<id>', with consecutive ids.
C36_SelfTransfer ==
    (/\ Called("transfer")
     /\ call.self = call.target
     /\ StartsWith(call.outcome.msg, "Transfer completed."))
        => LET n == Len(selfBefore.transactions)
               log == selfAfter.transactions
               id == ToString(selfBefore.account_id)
           IN  /\ selfAfter.balance = selfBefore.balance
               /\ Len(log) = n + 2
               /\ SubSeq(log, 1, n) = selfBefore.transactions
               /\ log[n + 1].transaction_type = PyStr("transfer_to_" \o id)
               /\ log[n + 2].transaction_type = PyStr("transfer_from_" \o id)
               /\ log[n + 1].transaction_id = PyInt(n + 1)
               /\ log[n + 2].transaction_id = PyInt(n + 2)

\* The accounts a call names.
Named == IF Called("transfer") THEN {call.self, call.target} ELSE {call.self}

\* C37: frame of the account operations.  deposit and withdraw on account A
\* change nothing but A's balance and A's log; transfer from A to B changes
\* nothing but the balances and logs of A and B; every other account and the
\* set of accounts are as before the step.
C37_Frame ==
    call.op \in {"deposit", "withdraw", "transfer"} =>
        /\ DOMAIN accounts = DOMAIN pre
        /\ \A i \in DOMAIN pre :
               /\ accounts[i].account_id = pre[i].account_id
               /\ accounts[i].currency = pre[i].currency
               /\ i \notin Named => accounts[i] = pre[i]

\* Witness of C37: a transfer between two accounts has changed both while a
\* third account, which has a record of its own, is as it was.
C37_Witness ==
    /\ Called("transfer")
    /\ call.self # call.target
    /\ StartsWith(call.outcome.msg, "Transfer completed.")
    /\ accounts[call.self] # pre[call.self]
    /\ accounts[call.target] # pre[call.target]
    /\ \E i \in DOMAIN accounts \ Named :
           accounts[i].transactions # <<>> /\ accounts[i] = pre[i]

\* C38: the deposit command reports 'Account replenished <account id> ...
\* <amount>' only when the deposit was applied: the balance of the account
\* has grown by the amount and a deposit record has been appended to its log.
C38_DepositReport ==
    (/\ call.op = "deposit"
     /\ call.printed # <<>>
     /\ StartsWith(LastPrinted, "Account replenished"))
        => LET users == UsersWithId(pre, call.args.user_id)
               u == CHOOSE v \in users : \A w \in users : v <= w
               found == AccountsWithId(pre.users[u], call.args.account_id)
               a == CHOOSE b \in found : \A c \in found : b <= c
               before == pre.users[u].accounts[a]
               after == file.users[u].accounts[a]
               n == Len(before.transactions)
           IN  /\ after.balance = before.balance + call.args.amount.num
               /\ Len(after.transactions) = n + 1
               /\ after.transactions[n + 1].transaction_type = PyStr("deposit")
               /\ after.transactions[n + 1].amount = call.args.amount

\* The sum of the balances of the accounts at the positions S.
RECURSIVE SumBalances(_)
SumBalances(S) ==
    IF S = {} THEN 0
    ELSE LET a == CHOOSE x \in S : TRUE
         IN  accounts[a].balance + SumBalances(S \ {a})

\* The sum of the values of the map m over the keys K.
RECURSIVE SumValues(_, _)
SumValues(m, K) ==
    IF K = {} THEN 0
    ELSE LET c == CHOOSE x \in K : TRUE
         IN  m[c] + SumValues(m, K \ {c})

\* C31: user aggregates.  get_balances_by_currency returns a map whose keys
\* are exactly the currencies of the user's accounts and whose value for a
\* currency is the sum of the balances of the accounts in that currency (the
\* empty map for no accounts); get_total_balance returns the sum of all the
\* balances, which is the sum of the map's values.
C31_UserAggregates ==
    /\ call.op = "get_balances_by_currency" =>
           /\ DOMAIN call.value = {accounts[a].currency : a \in DOMAIN accounts}
           /\ \A c \in DOMAIN call.value :
                  call.value[c] =
                      SumBalances({a \in DOMAIN accounts : accounts[a].currency = c})
           /\ SumValues(call.value, DOMAIN call.value)
                  = User_get_total_balance(TheUser)
    /\ call.op = "get_total_balance" =>
           call.value = SumBalances(DOMAIN accounts)

\* Witness of C31: the balances by currency of a user with two accounts of
\* one currency, of different balances, and one account of another.
C31_Witness ==
    /\ call.op = "get_balances_by_currency"
    /\ \E a, b, c \in DOMAIN accounts :
           /\ a # b
           /\ accounts[a].currency = accounts[b].currency
           /\ accounts[a].balance # accounts[b].balance
           /\ accounts[c].currency # accounts[a].currency
           /\ call.value[accounts[a].currency]
                  = accounts[a].balance + accounts[b].balance

\* C32: user serialization.  User.from_dict(u.to_dict()) reproduces u's id,
\* username, surname and its accounts in order with their balances,
\* currencies and logs; from_dict raises KeyError when username, surname or
\* user_id is missing, and reads a missing 'accounts' or 'transactions' key
\* as an empty list.
C32_UserSerialization ==
    /\ call.op = "round_trip" =>
           ~call.outcome.raised /\ call.value = TheUser
    /\ call.op = "from_dict" =>
           LET data == call.args
               named == {"username", "surname", "user_id"} \subseteq DOMAIN data
           IN  /\ ~named => call.outcome.raised /\ call.outcome.exc = "KeyError"
               /\ "accounts" \notin DOMAIN data =>
                      /\ ~call.outcome.raised
                      /\ call.value = [TheUser EXCEPT !.accounts = <<>>]
               /\ \A a \in DOMAIN accounts :
                      (/\ named /\ "accounts" \in DOMAIN data
                       /\ "transactions" \notin DOMAIN data.accounts[a])
                          => /\ ~call.outcome.raised
                             /\ call.value =
                                    [TheUser EXCEPT !.accounts[a].transactions = <<>>]

\* Witness of C32: a user with two accounts or more, one of them with a
\* record, comes back from to_dict and from_dict as it was.
C32_Witness ==
    /\ call.op = "round_trip"
    /\ Len(accounts) >= 2
    /\ \E a \in DOMAIN accounts : accounts[a].transactions # <<>>
    /\ call.value.accounts = accounts

\* C33: Userservice.get_user(user_id) returns the User object whose id is
\* user_id.
C33_GetUser ==
    (/\ call.op = "get_user"
     /\ "type" \in DOMAIN call.args
     /\ IsInt(call.args))
        => /\ ~call.outcome.raised
           /\ "user_id" \in DOMAIN call.value
           /\ call.value.user_id = call.args.num
====
